---- MODULE Spec2Model ----
(***************************************************************************)
(* ScoreboardStorage: a document store kept in Minecraft scoreboards.      *)
(* An objective is a collection, a participant's display name is the JSON  *)
(* text of a document and the participant's score is the record id.        *)
(***************************************************************************)
EXTENDS Integers, Sequences, FiniteSets, TLC

(***************************************************************************)
(* Bounds of the model.                                                    *)
(***************************************************************************)
\* save is not called once the next id would exceed MaxId
MaxId == 3

(***************************************************************************)
(* Limits of the host that the code checks.                                *)
(***************************************************************************)
MaxObjectiveNameLength == 16
MaxParticipantLength == 32767

(***************************************************************************)
(* JavaScript values.  A primitive is [t, v]: its type and its literal.    *)
(* A document is [t, fields]: an object with its own properties in         *)
(* insertion order, or the top-level values null and undefined.  An array  *)
(* is [t, v, items]: the sequence of its elements.                         *)
(***************************************************************************)
Undefined == [t |-> "undefined", v |-> ""]
Null == [t |-> "null", v |-> ""]
NaN == [t |-> "number", v |-> "NaN"]
Num(n) == [t |-> "number", v |-> n]
Str(s) == [t |-> "string", v |-> s]
Arr(items) == [t |-> "array", v |-> "", items |-> items]

Prop(k, x) == [key |-> k, val |-> x]
Obj(props) == [t |-> "object", fields |-> props]
DocNull == [t |-> "null", fields |-> <<>>]
DocUndefined == [t |-> "undefined", fields |-> <<>>]
\* a top-level value that is a number: it has no property of its own
DocNumber(n) == [t |-> "number", v |-> n, fields |-> <<>>]

\* a string of 32767 characters, kept by name; every other string is short
LongText == "<32767 chars>"
JsLength(s) == IF s = LongText THEN MaxParticipantLength ELSE Len(s)

\* a === b: two objects or arrays that were built apart are never the same
StrictEquals(a, b) == a = b /\ a # NaN /\ a.t \notin {"array", "object"}

HasOwn(doc, k) == \E i \in 1..Len(doc.fields) : doc.fields[i].key = k

\* doc[k] of a parsed document: the own property, else undefined
GetProp(doc, k) ==
    IF HasOwn(doc, k)
    THEN doc.fields[CHOOSE i \in 1..Len(doc.fields) : doc.fields[i].key = k].val
    ELSE Undefined

OwnKeys(doc) == {doc.fields[i].key : i \in 1..Len(doc.fields)}

\* { ...a, ...b }: a's properties in place, overwritten by b's, then b's new ones
Spread(a, b) ==
    LET fa == IF a.t = "object" THEN a.fields ELSE <<>>
        fb == IF b.t = "object" THEN b.fields ELSE <<>>
        kept == [i \in 1..Len(fa) |->
                    Prop(fa[i].key,
                         IF HasOwn(Obj(fb), fa[i].key)
                         THEN GetProp(Obj(fb), fa[i].key) ELSE fa[i].val)]
        added == SelectSeq(fb, LAMBDA p : ~HasOwn(Obj(fa), p.key))
    IN  Obj(kept \o added)

(***************************************************************************)
(* JSON text, as a sequence of tokens [tk, text].                          *)
(***************************************************************************)
Punct(c) == [tk |-> "punct", text |-> c]
StrTok(s) == [tk |-> "string", text |-> s]
NumTok(n) == [tk |-> "number", text |-> n]
NullTok == [tk |-> "literal", text |-> "null"]
\* text that is not JSON, such as a player's name
RawTok(s) == [tk |-> "raw", text |-> s]

TokenLength(tok) ==
    IF tok.tk = "string" THEN JsLength(tok.text) + 2 ELSE JsLength(tok.text)

RECURSIVE JsonLength(_)
JsonLength(json) ==
    IF json = <<>> THEN 0 ELSE TokenLength(Head(json)) + JsonLength(Tail(json))

\* the JSON text of a property value; undefined has none
ValueToken(x) ==
    CASE x.t = "null" -> NullTok
      [] x.t = "string" -> StrTok(x.v)
      [] x.t = "number" -> IF x = NaN THEN NullTok ELSE NumTok(x.v)
      [] x.t = "undefined" -> NullTok

\* the JSON text of the elements of an array; undefined is written null
RECURSIVE JsonElements(_)
JsonElements(items) ==
    IF items = <<>> THEN <<>>
    ELSE <<ValueToken(Head(items))>>
         \o (IF Tail(items) = <<>> THEN <<>>
             ELSE <<Punct(",")>> \o JsonElements(Tail(items)))

\* the JSON text of a property value that is a primitive or an array of them
ValueTokens(x) ==
    IF x.t = "array" THEN <<Punct("[")>> \o JsonElements(x.items) \o <<Punct("]")>>
    ELSE <<ValueToken(x)>>

RECURSIVE JsonMembers(_)
JsonMembers(props) ==
    IF props = <<>> THEN <<>>
    ELSE <<StrTok(Head(props).key), Punct(":")>> \o ValueTokens(Head(props).val)
         \o (IF Tail(props) = <<>> THEN <<>>
             ELSE <<Punct(",")>> \o JsonMembers(Tail(props)))

\* JSON.stringify(data), data not undefined
JsonStringify(data) ==
    IF data.t = "null" THEN <<NullTok>>
    ELSE IF data.t = "number"
    THEN IF data.v = "NaN" THEN <<NullTok>> ELSE <<NumTok(data.v)>>
    ELSE <<Punct("{")>>
         \o JsonMembers(SelectSeq(data.fields, LAMBDA p : p.val.t # "undefined"))
         \o <<Punct("}")>>

TokenValue(tok) ==
    CASE tok.tk = "string" -> Str(tok.text)
      [] tok.tk = "number" -> Num(tok.text)
      [] OTHER -> Null

IsValueToken(tok) == tok.tk \in {"string", "number"} \/ tok = NullTok

\* the position of the first closing bracket after position i, else 0
FirstClosing(json, i) ==
    LET closing == {j \in (i + 1)..Len(json) : json[j] = Punct("]")}
    IN  IF closing = {} THEN 0
        ELSE CHOOSE c \in closing : \A d \in closing : c <= d

\* the text from the bracket at position i to the bracket at position j is an array
\* of primitives: the position after it, else 0
ArrayEndAt(json, i, j) ==
    IF j = 0 THEN 0
    ELSE IF j = i + 1 THEN j + 1
    ELSE IF /\ (j - i) % 2 = 0
            /\ \A m \in (i + 1)..(j - 1) :
                  IF (m - i) % 2 = 1 THEN IsValueToken(json[m])
                  ELSE json[m] = Punct(",")
    THEN j + 1
    ELSE 0

\* the text from position i on starts with an array of primitives: the position
\* after its closing bracket, else 0
ArrayEnd(json, i) == ArrayEndAt(json, i, FirstClosing(json, i))

\* the text from position i on starts with a value: the position after it, else 0
ValueEnd(json, i) ==
    IF i > Len(json) THEN 0
    ELSE IF IsValueToken(json[i]) THEN i + 1
    ELSE IF json[i] = Punct("[") THEN ArrayEnd(json, i)
    ELSE 0

\* the value written from position i up to position e
ValueAt(json, i, e) ==
    IF json[i] = Punct("[")
    THEN Arr([m \in 1..((e - i - 1) \div 2) |-> TokenValue(json[i + 2 * m - 1])])
    ELSE TokenValue(json[i])

NoMembers == [ok |-> FALSE, members |-> <<>>]

\* a member in front of the members that follow it
WithMember(member, rest) ==
    IF rest.ok THEN [ok |-> TRUE, members |-> <<member>> \o rest.members]
    ELSE NoMembers

RECURSIVE ParseMembers(_, _)
RECURSIVE MembersFrom(_, _, _)

\* the member written from position i, its value ending before position e, and
\* the members after it
MembersFrom(json, i, e) ==
    IF e = 0 \/ e > Len(json) THEN NoMembers
    ELSE IF json[e] = Punct("}")
    THEN IF e = Len(json)
         THEN [ok |-> TRUE, members |-> <<Prop(json[i].text, ValueAt(json, i + 2, e))>>]
         ELSE NoMembers
    ELSE IF json[e] = Punct(",")
    THEN WithMember(Prop(json[i].text, ValueAt(json, i + 2, e)),
                    ParseMembers(json, e + 1))
    ELSE NoMembers

\* the members written from position i up to the closing brace that ends the text
ParseMembers(json, i) ==
    IF i + 2 > Len(json) THEN NoMembers
    ELSE IF json[i].tk # "string" \/ json[i + 1] # Punct(":") THEN NoMembers
    ELSE MembersFrom(json, i, ValueEnd(json, i + 2))

\* the text is an object literal of n >= 0 members
IsObjectText(json) ==
    \/ json = <<Punct("{"), Punct("}")>>
    \/ /\ Len(json) >= 5
       /\ json[1] = Punct("{")
       /\ ParseMembers(json, 2).ok

\* the object of a list of members: a repeated key keeps its first place and
\* takes its last value
ObjectOfMembers(members) ==
    LET n == Len(members)
        key(i) == members[i].key
        lastOf(i) == CHOOSE j \in i..n :
                        key(j) = key(i) /\ \A m \in (j + 1)..n : key(m) # key(i)
        all == [i \in 1..n |-> [key |-> key(i), val |-> members[lastOf(i)].val,
                                first |-> \A m \in 1..(i - 1) : key(m) # key(i)]]
        firsts == SelectSeq(all, LAMBDA p : p.first)
    IN  Obj([i \in 1..Len(firsts) |-> Prop(firsts[i].key, firsts[i].val)])

\* the object an object literal denotes
ObjectOfText(json) ==
    ObjectOfMembers(IF Len(json) >= 5 THEN ParseMembers(json, 2).members ELSE <<>>)

\* JSON.parse(json): the value, or a SyntaxError
JsonParse(json) ==
    IF json = <<NullTok>> THEN [ok |-> TRUE, value |-> DocNull]
    ELSE IF Len(json) = 1 /\ json[1].tk = "number"
    THEN [ok |-> TRUE, value |-> DocNumber(json[1].text)]
    ELSE IF IsObjectText(json) THEN [ok |-> TRUE, value |-> ObjectOfText(json)]
    ELSE [ok |-> FALSE, value |-> DocNull]

(***************************************************************************)
(* The host's scoreboard.  An objective is the sequence of its             *)
(* participants in the order the host enumerates them, each with its       *)
(* display name and its score; the display name identifies the participant.*)
(* A new participant is enumerated after the ones already there.           *)
(***************************************************************************)
ObjectiveNames == {"players"}

NoObjective == [exists |-> FALSE, participants |-> <<>>]

\* world.scoreboard.getObjective(name) is defined
HasObjective(board, objectiveName) ==
    objectiveName \in DOMAIN board /\ board[objectiveName].exists

\* objective.getParticipants(): the participants at the time of the call
getParticipants(board, objectiveName) == board[objectiveName].participants

IsParticipant(participants, displayName) ==
    \E i \in 1..Len(participants) : participants[i].displayName = displayName

\* a score read from the first participant instead of the one given
getScore_first(participants, p) == participants[1].score

\* objective.getScore(p)
getScore(participants, p) ==
    participants[CHOOSE i \in 1..Len(participants) :
                    participants[i].displayName = p.displayName].score

\* a store that adds an entry for every write
setScore_append(participants, displayName, score) ==
    Append(participants, [displayName |-> displayName, score |-> score])

\* objective.setScore(displayName, score): the score of the participant of that
\* name, which is added when the objective has none
setScore(participants, displayName, score) ==
    IF IsParticipant(participants, displayName)
    THEN [i \in 1..Len(participants) |->
            IF participants[i].displayName = displayName
            THEN [participants[i] EXCEPT !.score = score]
            ELSE participants[i]]
    ELSE Append(participants, [displayName |-> displayName, score |-> score])

\* objective.removeParticipant(p)
removeParticipant(participants, p) ==
    SelectSeq(participants, LAMBDA q : q.displayName # p.displayName)

WithParticipants(board, objectiveName, participants) ==
    [board EXCEPT ![objectiveName] = [exists |-> TRUE, participants |-> participants]]

(***************************************************************************)
(* ScoreboardStorage: internal utilities.  An operation yields             *)
(* [board, ret, threw]: the scoreboard after it, what it returns, and the  *)
(* error it throws ("none" when it returns).                               *)
(***************************************************************************)
Outcome(board, ret, threw) == [board |-> board, ret |-> ret, threw |-> threw]

\* objectiveName.trim()
Trim(s) == IF s \in {" ", "  "} THEN "" ELSE s

\* the error _getObjective throws for the name, "none" for a name it accepts
ObjectiveNameError(objectiveName) ==
    IF Trim(objectiveName) = "" THEN "TypeError"
    ELSE IF Len(objectiveName) > MaxObjectiveNameLength THEN "RangeError"
    ELSE "none"

\* _getObjective(objectiveName), the name accepted: the objective is created
\* when the scoreboard has none of that name
_getObjective(board, objectiveName) ==
    IF HasObjective(board, objectiveName) THEN board
    ELSE WithParticipants(board, objectiveName, <<>>)

\* a loop that keeps the score it saw last instead of the highest
MaxScore_last(participants) ==
    IF participants = <<>> THEN 0 ELSE participants[Len(participants)].score

RECURSIVE MaxScore(_)
MaxScore(participants) ==
    IF participants = <<>> THEN 0
    ELSE LET rest == MaxScore(Tail(participants))
         IN  IF Head(participants).score > rest THEN Head(participants).score ELSE rest

\* the number of records plus one instead of the highest id plus one
_getNextId_count(participants) == Len(participants) + 1

_getNextId(participants) == MaxScore(participants) + 1

\* _stringify(data): the JSON text, or the error thrown
_stringify(data) ==
    IF data.t = "undefined" THEN [threw |-> "TypeError", json |-> <<>>]
    ELSE LET json == JsonStringify(data)
         IN  IF JsonLength(json) > MaxParticipantLength
             THEN [threw |-> "RangeError", json |-> <<>>]
             ELSE [threw |-> "none", json |-> json]

\* a parse that takes text that is not JSON for an empty document
_parse_lenient(json) == IF JsonParse(json).ok THEN JsonParse(json).value ELSE Obj(<<>>)

\* _parse(json): the parsed value, null for text that is not JSON
_parse(json) == IF JsonParse(json).ok THEN JsonParse(json).value ELSE DocNull

(***************************************************************************)
(* Queries and replacement data.  A query is undefined, a record id, an    *)
(* object of required property values, or a function; the functions are    *)
(* taken from a small named set.                                           *)
(***************************************************************************)
QueryUndefined == [kind |-> "undefined", fields |-> <<>>, fn |-> "", id |-> 0]
QueryObject(props) == [kind |-> "object", fields |-> props, fn |-> "", id |-> 0]
QueryFunction(f) == [kind |-> "function", fields |-> <<>>, fn |-> f, id |-> 0]
QueryNumber(n) == [kind |-> "number", fields |-> <<>>, fn |-> "", id |-> n]

\* query(parsed) as a condition, for the functions
\*   hasJ = (d) => d.j !== undefined      noJ = (d) => d.j === undefined
CallPredicate(f, parsed) ==
    CASE f = "hasJ" -> ~StrictEquals(GetProp(parsed, "j"), Undefined)
      [] f = "noJ" -> StrictEquals(GetProp(parsed, "j"), Undefined)

\* the loop over the keys of an object query: no key whose value differs
MatchesObject(parsed, query) ==
    \A i \in 1..Len(query.fields) :
        StrictEquals(GetProp(parsed, query.fields[i].key), query.fields[i].val)

\* newData(parsed), for the functions
\*   constJ = (d) => ({ j: "a" })      noReturn = (d) => { d.j = "a"; }
CallTransform(f, parsed) ==
    CASE f = "constJ" -> Obj(<<Prop("j", Str("a"))>>)
      [] f = "noReturn" -> DocUndefined

NewDataObject(data) == [kind |-> "object", data |-> data, fn |-> ""]
NewDataFunction(f) == [kind |-> "function", data |-> DocUndefined, fn |-> f]

(***************************************************************************)
(* ScoreboardStorage: write.                                               *)
(***************************************************************************)
save(board, objectiveName, data) ==
    IF ObjectiveNameError(objectiveName) # "none"
    THEN Outcome(board, 0, ObjectiveNameError(objectiveName))
    ELSE LET created == _getObjective(board, objectiveName)
             str == _stringify(data)
             id == _getNextId(getParticipants(created, objectiveName))
         IN  IF str.threw # "none" THEN Outcome(created, 0, str.threw)
             ELSE Outcome(WithParticipants(created, objectiveName,
                              setScore(getParticipants(created, objectiveName),
                                       str.json, id)),
                          id, "none")

(***************************************************************************)
(* ScoreboardStorage: read.                                                *)
(***************************************************************************)
\* the participants whose score is id, in enumeration order
WithScore(participants, id) == SelectSeq(participants, LAMBDA p : p.score = id)

getElementById(board, objectiveName, id) ==
    IF ~HasObjective(board, objectiveName) THEN Outcome(board, DocNull, "none")
    ELSE LET found == WithScore(getParticipants(board, objectiveName), id)
         IN  IF found # <<>> THEN Outcome(board, _parse(found[1].displayName), "none")
             ELSE Outcome(board, DocNull, "none")

\* match of getElements for one parsed document
ElementMatches(parsed, query) ==
    CASE query.kind = "function" -> CallPredicate(query.fn, parsed)
      [] query.kind = "object" -> MatchesObject(parsed, query)
      [] OTHER -> TRUE

Element(participants, p) ==
    [id |-> getScore(participants, p), data |-> _parse(p.displayName)]

\* a getElements that gets the objective the way save does
getElements_create(board, objectiveName, query) ==
    IF query.kind = "number" THEN Outcome(board, <<>>, "TypeError")
    ELSE LET participants == getParticipants(_getObjective(board, objectiveName),
                                             objectiveName)
             hits == SelectSeq(participants,
                        LAMBDA p : /\ _parse(p.displayName) # DocNull
                                   /\ ElementMatches(_parse(p.displayName), query))
         IN  Outcome(_getObjective(board, objectiveName),
                     [i \in 1..Len(hits) |-> Element(participants, hits[i])],
                     "none")

getElements(board, objectiveName, query) ==
    IF query.kind = "number" THEN Outcome(board, <<>>, "TypeError")
    ELSE IF ~HasObjective(board, objectiveName) THEN Outcome(board, <<>>, "none")
    ELSE LET participants == getParticipants(board, objectiveName)
             hits == SelectSeq(participants,
                        LAMBDA p : /\ _parse(p.displayName) # DocNull
                                   /\ ElementMatches(_parse(p.displayName), query))
         IN  Outcome(board, [i \in 1..Len(hits) |-> Element(participants, hits[i])],
                     "none")

\* a parsed document is truthy
Truthy(parsed) ==
    \/ parsed.t = "object"
    \/ parsed.t = "number" /\ parsed.v \notin {"0", "NaN"}

findAll(board, objectiveName, callback) ==
    IF callback.kind # "function" THEN Outcome(board, <<>>, "TypeError")
    ELSE IF ~HasObjective(board, objectiveName) THEN Outcome(board, <<>>, "none")
    ELSE LET participants == getParticipants(board, objectiveName)
             hits == SelectSeq(participants,
                        LAMBDA p : /\ Truthy(_parse(p.displayName))
                                   /\ CallPredicate(callback.fn, _parse(p.displayName)))
         IN  Outcome(board, [i \in 1..Len(hits) |-> Element(participants, hits[i])],
                     "none")

\* the result of find is a list of no element (null) or of one
find(board, objectiveName, callback) ==
    LET all == findAll(board, objectiveName, callback)
    IN  IF all.ret = <<>> THEN all ELSE Outcome(board, <<all.ret[1]>>, "none")

(***************************************************************************)
(* ScoreboardStorage: update.                                              *)
(***************************************************************************)
\* an update that writes the document also when no record has the id
updateById_upsert(board, objectiveName, id, newData) ==
    IF newData.t = "undefined" THEN Outcome(board, FALSE, "TypeError")
    ELSE IF ~HasObjective(board, objectiveName) THEN Outcome(board, FALSE, "none")
    ELSE LET participants == getParticipants(board, objectiveName)
             str == _stringify(newData)
             found == WithScore(participants, id)
         IN  IF str.threw # "none" THEN Outcome(board, FALSE, str.threw)
             ELSE Outcome(WithParticipants(board, objectiveName,
                              setScore(IF found = <<>> THEN participants
                                       ELSE removeParticipant(participants, found[1]),
                                       str.json, id)),
                          found # <<>>, "none")

\* an update that merges the new document into the old one
updateById_merge(board, objectiveName, id, newData) ==
    IF newData.t = "undefined" THEN Outcome(board, FALSE, "TypeError")
    ELSE IF ~HasObjective(board, objectiveName) THEN Outcome(board, FALSE, "none")
    ELSE LET participants == getParticipants(board, objectiveName)
             found == WithScore(participants, id)
             str == IF found = <<>> THEN _stringify(newData)
                    ELSE _stringify(Spread(_parse(found[1].displayName), newData))
         IN  IF str.threw # "none" THEN Outcome(board, FALSE, str.threw)
             ELSE IF found = <<>> THEN Outcome(board, FALSE, "none")
             ELSE Outcome(WithParticipants(board, objectiveName,
                              setScore(removeParticipant(participants, found[1]),
                                       str.json, id)),
                          TRUE, "none")

\* an update that removes the first participant instead of the one found
updateById_first(board, objectiveName, id, newData) ==
    IF newData.t = "undefined" THEN Outcome(board, FALSE, "TypeError")
    ELSE IF ~HasObjective(board, objectiveName) THEN Outcome(board, FALSE, "none")
    ELSE LET participants == getParticipants(board, objectiveName)
             str == _stringify(newData)
             found == WithScore(participants, id)
         IN  IF str.threw # "none" THEN Outcome(board, FALSE, str.threw)
             ELSE IF found = <<>> THEN Outcome(board, FALSE, "none")
             ELSE Outcome(WithParticipants(board, objectiveName,
                              setScore(removeParticipant(participants, participants[1]),
                                       str.json, id)),
                          TRUE, "none")

updateById(board, objectiveName, id, newData) ==
    IF newData.t = "undefined" THEN Outcome(board, FALSE, "TypeError")
    ELSE IF ~HasObjective(board, objectiveName) THEN Outcome(board, FALSE, "none")
    ELSE LET participants == getParticipants(board, objectiveName)
             str == _stringify(newData)
             found == WithScore(participants, id)
         IN  IF str.threw # "none" THEN Outcome(board, FALSE, str.threw)
             ELSE IF found = <<>> THEN Outcome(board, FALSE, "none")
             ELSE Outcome(WithParticipants(board, objectiveName,
                              setScore(removeParticipant(participants, found[1]),
                                       str.json, id)),
                          TRUE, "none")

\* match of update and delete for one parsed document
MassMatches(parsed, query) ==
    CASE query.kind = "function" -> CallPredicate(query.fn, parsed)
      [] query.kind = "object" -> MatchesObject(parsed, query)
      [] OTHER -> FALSE

\* an update that replaces the old document by the object given
DataToSave_replace(parsed, newData) ==
    IF newData.kind = "function" THEN CallTransform(newData.fn, parsed)
    ELSE newData.data

DataToSave(parsed, newData) ==
    IF newData.kind = "function" THEN CallTransform(newData.fn, parsed)
    ELSE Spread(parsed, newData.data)

\* the loop of update over the participants enumerated at its start
RECURSIVE UpdateLoop(_, _, _, _, _)
UpdateLoop(participants, todo, query, newData, updatedCount) ==
    IF todo = <<>> THEN [participants |-> participants, ret |-> updatedCount,
                         threw |-> "none"]
    ELSE LET p == Head(todo)
             parsed == _parse(p.displayName)
         IN  IF parsed # DocNull /\ MassMatches(parsed, query)
             THEN LET id == getScore(participants, p)
                      removed == removeParticipant(participants, p)
                      str == _stringify(DataToSave(parsed, newData))
                  IN  IF str.threw # "none"
                      THEN [participants |-> removed, ret |-> updatedCount,
                            threw |-> str.threw]
                      ELSE UpdateLoop(setScore(removed, str.json, id), Tail(todo),
                                      query, newData, updatedCount + 1)
             ELSE UpdateLoop(participants, Tail(todo), query, newData, updatedCount)

update(board, objectiveName, query, newData) ==
    IF query.kind = "undefined" THEN Outcome(board, 0, "TypeError")
    ELSE IF newData.kind = "object" /\ newData.data.t = "undefined"
    THEN Outcome(board, 0, "TypeError")
    ELSE IF ~HasObjective(board, objectiveName) THEN Outcome(board, 0, "none")
    ELSE LET participants == getParticipants(board, objectiveName)
             done == UpdateLoop(participants, participants, query, newData, 0)
         IN  Outcome(WithParticipants(board, objectiveName, done.participants),
                     done.ret, done.threw)

(***************************************************************************)
(* ScoreboardStorage: delete.                                              *)
(***************************************************************************)
\* a delete that removes the first participant instead of the one found
deleteById_first(board, objectiveName, id) ==
    IF ~HasObjective(board, objectiveName) THEN Outcome(board, FALSE, "none")
    ELSE LET participants == getParticipants(board, objectiveName)
             found == WithScore(participants, id)
         IN  IF found = <<>> THEN Outcome(board, FALSE, "none")
             ELSE Outcome(WithParticipants(board, objectiveName,
                              removeParticipant(participants, participants[1])),
                          TRUE, "none")

\* a deleteById that gets the objective the way save does
deleteById_create(board, objectiveName, id) ==
    IF ~HasObjective(board, objectiveName)
    THEN Outcome(_getObjective(board, objectiveName), FALSE, "none")
    ELSE LET participants == getParticipants(board, objectiveName)
             found == WithScore(participants, id)
         IN  IF found = <<>> THEN Outcome(board, FALSE, "none")
             ELSE Outcome(WithParticipants(board, objectiveName,
                              removeParticipant(participants, found[1])),
                          TRUE, "none")

deleteById(board, objectiveName, id) ==
    IF ~HasObjective(board, objectiveName) THEN Outcome(board, FALSE, "none")
    ELSE LET participants == getParticipants(board, objectiveName)
             found == WithScore(participants, id)
         IN  IF found = <<>> THEN Outcome(board, FALSE, "none")
             ELSE Outcome(WithParticipants(board, objectiveName,
                              removeParticipant(participants, found[1])),
                          TRUE, "none")

delete(board, objectiveName, query) ==
    IF query.kind = "number" THEN Outcome(board, 0, "TypeError")
    ELSE IF ~HasObjective(board, objectiveName) THEN Outcome(board, 0, "none")
    ELSE LET participants == getParticipants(board, objectiveName)
             hit(p) == /\ _parse(p.displayName) # DocNull
                       /\ MassMatches(_parse(p.displayName), query)
         IN  Outcome(WithParticipants(board, objectiveName,
                         SelectSeq(participants, LAMBDA p : ~hit(p))),
                     Len(SelectSeq(participants, hit)), "none")

(***************************************************************************)
(* ScoreboardStorage: utilities.                                           *)
(***************************************************************************)
\* an existence check by id that parses the record
exists_parsed(board, objectiveName, query) ==
    IF query.kind = "function" THEN Outcome(board, FALSE, "TypeError")
    ELSE IF ~HasObjective(board, objectiveName) THEN Outcome(board, FALSE, "none")
    ELSE LET participants == getParticipants(board, objectiveName)
         IN  CASE query.kind = "undefined" ->
                    Outcome(board, Len(participants) > 0, "none")
               [] query.kind = "number" ->
                    Outcome(board,
                            getElementById(board, objectiveName, query.id).ret # DocNull,
                            "none")
               [] OTHER ->
                    Outcome(board,
                            \E i \in 1..Len(participants) :
                                /\ Truthy(_parse(participants[i].displayName))
                                /\ MatchesObject(_parse(participants[i].displayName),
                                                 query),
                            "none")

exists(board, objectiveName, query) ==
    IF query.kind = "function" THEN Outcome(board, FALSE, "TypeError")
    ELSE IF ~HasObjective(board, objectiveName) THEN Outcome(board, FALSE, "none")
    ELSE LET participants == getParticipants(board, objectiveName)
         IN  CASE query.kind = "undefined" ->
                    Outcome(board, Len(participants) > 0, "none")
               [] query.kind = "number" ->
                    Outcome(board, WithScore(participants, query.id) # <<>>, "none")
               [] OTHER ->
                    Outcome(board,
                            \E i \in 1..Len(participants) :
                                /\ Truthy(_parse(participants[i].displayName))
                                /\ MatchesObject(_parse(participants[i].displayName),
                                                 query),
                            "none")

\* a count that leaves out the entries that do not parse
count_parsed(board, objectiveName, query) ==
    IF query.kind = "number" THEN Outcome(board, 0, "TypeError")
    ELSE IF ~HasObjective(board, objectiveName) THEN Outcome(board, 0, "none")
    ELSE LET participants == getParticipants(board, objectiveName)
             hit(p) == /\ Truthy(_parse(p.displayName))
                       /\ CASE query.kind = "function" ->
                                 CallPredicate(query.fn, _parse(p.displayName))
                            [] query.kind = "object" ->
                                 MatchesObject(_parse(p.displayName), query)
                            [] OTHER -> TRUE
         IN  Outcome(board, Len(SelectSeq(participants, hit)), "none")

count(board, objectiveName, query) ==
    IF query.kind = "number" THEN Outcome(board, 0, "TypeError")
    ELSE IF ~HasObjective(board, objectiveName) THEN Outcome(board, 0, "none")
    ELSE LET participants == getParticipants(board, objectiveName)
             hit(p) == /\ Truthy(_parse(p.displayName))
                       /\ IF query.kind = "function"
                          THEN CallPredicate(query.fn, _parse(p.displayName))
                          ELSE MatchesObject(_parse(p.displayName), query)
         IN  IF query.kind = "undefined" THEN Outcome(board, Len(participants), "none")
             ELSE Outcome(board, Len(SelectSeq(participants, hit)), "none")

\* a clear that removes the first participant only
clear_first(board, objectiveName) ==
    IF Trim(objectiveName) = "" THEN Outcome(board, 0, "TypeError")
    ELSE IF ~HasObjective(board, objectiveName) THEN Outcome(board, 0, "none")
    ELSE LET participants == getParticipants(board, objectiveName)
         IN  Outcome(WithParticipants(board, objectiveName,
                         SubSeq(participants, 2, Len(participants))),
                     0, "none")

\* clear(objectiveName): the error it throws for the name, else every participant
\* removed; it returns nothing
clear(board, objectiveName) ==
    IF Trim(objectiveName) = "" THEN Outcome(board, 0, "TypeError")
    ELSE IF ~HasObjective(board, objectiveName) THEN Outcome(board, 0, "none")
    ELSE Outcome(WithParticipants(board, objectiveName, <<>>), 0, "none")

(***************************************************************************)
(* CacheManager.  _memory maps an objective name to the mirror of the      *)
(* objective, a Map from record id to document, here the sequence of its   *)
(* [id, data] entries in insertion order; an objective that is not in      *)
(* _memory has loaded = FALSE.  An operation yields [memory, board, ret,   *)
(* threw, reads]: the mirrors and the scoreboard after it, what it         *)
(* returns, the error it throws and the number of calls of                 *)
(* ScoreboardStorage.getElements it made.                                  *)
(***************************************************************************)
NotLoaded == [loaded |-> FALSE, entries |-> <<>>]

\* objectiveCache.has(id)
MapHas(entries, id) == \E i \in 1..Len(entries) : entries[i].id = id

\* objectiveCache.get(id), for an id the Map has
MapGet(entries, id) == entries[CHOOSE i \in 1..Len(entries) : entries[i].id = id].data

\* objectiveCache.set(id, data): the value of the key, which is added last when
\* the Map has no such key
MapSet(entries, id, data) ==
    IF MapHas(entries, id)
    THEN [i \in 1..Len(entries) |->
            IF entries[i].id = id THEN [entries[i] EXCEPT !.data = data]
            ELSE entries[i]]
    ELSE Append(entries, [id |-> id, data |-> data])

\* objectiveCache.delete(id)
MapDelete(entries, id) == SelectSeq(entries, LAMBDA e : e.id # id)

\* the loop of _ensureLoaded over the records read
RECURSIVE MapOfRecords(_, _)
MapOfRecords(entries, physicalRecords) ==
    IF physicalRecords = <<>> THEN entries
    ELSE MapOfRecords(MapSet(entries, Head(physicalRecords).id,
                             Head(physicalRecords).data),
                      Tail(physicalRecords))

\* a load that reads the scoreboard on every call
_ensureLoaded_always(memory, board, objectiveName) ==
    [memory |-> [memory EXCEPT ![objectiveName] =
                    [loaded |-> TRUE,
                     entries |-> MapOfRecords(<<>>,
                         getElements(board, objectiveName, QueryUndefined).ret)]],
     reads |-> 1]

\* _ensureLoaded(objectiveName): the mirrors after it and the number of
\* getElements calls it made
_ensureLoaded(memory, board, objectiveName) ==
    IF memory[objectiveName].loaded THEN [memory |-> memory, reads |-> 0]
    ELSE [memory |-> [memory EXCEPT ![objectiveName] =
                        [loaded |-> TRUE,
                         entries |-> MapOfRecords(<<>>,
                             getElements(board, objectiveName, QueryUndefined).ret)]],
          reads |-> 1]

CacheOutcome(memory, board, ret, threw, reads) ==
    [memory |-> memory, board |-> board, ret |-> ret, threw |-> threw, reads |-> reads]

\* a read by id that asks the storage instead of the mirror
CacheManager_getById_through(memory, board, objectiveName, id) ==
    LET loaded == _ensureLoaded(memory, board, objectiveName)
    IN  CacheOutcome(loaded.memory, board,
                     getElementById(board, objectiveName, id).ret, "none", loaded.reads)

\* CacheManager.getById(objectiveName, id)
CacheManager_getById(memory, board, objectiveName, id) ==
    LET loaded == _ensureLoaded(memory, board, objectiveName)
        objectiveCache == loaded.memory[objectiveName].entries
    IN  CacheOutcome(loaded.memory, board,
                     IF MapHas(objectiveCache, id) /\ Truthy(MapGet(objectiveCache, id))
                     THEN MapGet(objectiveCache, id) ELSE DocNull,
                     "none", loaded.reads)

\* CacheManager.getAll(objectiveName)
CacheManager_getAll(memory, board, objectiveName) ==
    LET loaded == _ensureLoaded(memory, board, objectiveName)
    IN  CacheOutcome(loaded.memory, board, loaded.memory[objectiveName].entries,
                     "none", loaded.reads)

\* CacheManager.save(objectiveName, data)
CacheManager_save(memory, board, objectiveName, data) ==
    LET loaded == _ensureLoaded(memory, board, objectiveName)
        physical == save(board, objectiveName, data)
    IN  IF physical.threw # "none"
        THEN CacheOutcome(loaded.memory, physical.board, 0, physical.threw, loaded.reads)
        ELSE CacheOutcome(
                [loaded.memory EXCEPT ![objectiveName].entries =
                    MapSet(@, physical.ret, data)],
                physical.board, physical.ret, "none", loaded.reads)

\* an update that mirrors the new document whatever the storage answered
CacheManager_updateById_always(memory, board, objectiveName, id, newData) ==
    LET loaded == _ensureLoaded(memory, board, objectiveName)
        physical == updateById(board, objectiveName, id, newData)
    IN  CacheOutcome(
            [loaded.memory EXCEPT ![objectiveName].entries = MapSet(@, id, newData)],
            physical.board, physical.ret, physical.threw, loaded.reads)

\* CacheManager.updateById(objectiveName, id, newData)
CacheManager_updateById(memory, board, objectiveName, id, newData) ==
    LET loaded == _ensureLoaded(memory, board, objectiveName)
        physical == updateById(board, objectiveName, id, newData)
    IN  IF physical.threw # "none"
        THEN CacheOutcome(loaded.memory, physical.board, FALSE, physical.threw,
                          loaded.reads)
        ELSE IF physical.ret
        THEN CacheOutcome(
                [loaded.memory EXCEPT ![objectiveName].entries = MapSet(@, id, newData)],
                physical.board, TRUE, "none", loaded.reads)
        ELSE CacheOutcome(loaded.memory, physical.board, FALSE, "none", loaded.reads)

\* a delete that leaves the mirror as it was
CacheManager_deleteById_keep(memory, board, objectiveName, id) ==
    LET loaded == _ensureLoaded(memory, board, objectiveName)
        physical == deleteById(board, objectiveName, id)
    IN  CacheOutcome(loaded.memory, physical.board, physical.ret, "none", loaded.reads)

\* CacheManager.deleteById(objectiveName, id)
CacheManager_deleteById(memory, board, objectiveName, id) ==
    LET loaded == _ensureLoaded(memory, board, objectiveName)
        physical == deleteById(board, objectiveName, id)
    IN  IF physical.ret
        THEN CacheOutcome(
                [loaded.memory EXCEPT ![objectiveName].entries = MapDelete(@, id)],
                physical.board, TRUE, "none", loaded.reads)
        ELSE CacheOutcome(loaded.memory, physical.board, FALSE, "none", loaded.reads)

(***************************************************************************)
(* Relation.  _bindings maps a source objective to the list of its         *)
(* bindings in the order they were registered; a source objective that     *)
(* _bindings does not have maps to the empty list, which populate treats   *)
(* alike.  The target objectives are read through ScoreboardStorage.       *)
(***************************************************************************)
\* bind is not called on a source objective that has MaxBindings bindings
MaxBindings == 2

SourceObjectives == {"members", "guilds"}

Binding(localField, targetObjective, targetField, as, isReverse) ==
    [localField |-> localField, targetObjective |-> targetObjective,
     targetField |-> targetField, as |-> as, isReverse |-> isReverse]

\* this._bindings.get(objectiveName), the empty list when there is none
BindingsOf(bindings, objectiveName) ==
    IF objectiveName \in DOMAIN bindings THEN bindings[objectiveName] ELSE <<>>

\* as is not looked at
_addBinding_anyAlias(bindings, sourceObjective, localField, targetObjective, targetField, as, isReverse) ==
    IF \/ sourceObjective = "" \/ localField = "" \/ targetObjective = ""
       \/ targetField = ""
    THEN [bindings |-> bindings, threw |-> "TypeError"]
    ELSE [bindings |-> [bindings EXCEPT ![sourceObjective] =
                          Append(@, Binding(localField, targetObjective, targetField,
                                            as, isReverse))],
          threw |-> "none"]

\* Relation._addBinding
_addBinding(bindings, sourceObjective, localField, targetObjective, targetField, as, isReverse) ==
    IF \/ sourceObjective = "" \/ localField = "" \/ targetObjective = ""
       \/ targetField = "" \/ as = ""
    THEN [bindings |-> bindings, threw |-> "TypeError"]
    ELSE [bindings |-> [bindings EXCEPT ![sourceObjective] =
                          Append(@, Binding(localField, targetObjective, targetField,
                                            as, isReverse))],
          threw |-> "none"]

\* Relation.bind
bind(bindings, sourceObjective, localField, targetObjective, targetField, as) ==
    _addBinding(bindings, sourceObjective, localField, targetObjective, targetField, as,
                FALSE)

\* Relation.bindReverse
bindReverse(bindings, sourceObjective, localField, targetObjective, targetField, as) ==
    _addBinding(bindings, sourceObjective, localField, targetObjective, targetField, as,
                TRUE)

\* the registry is left as it is
reset_keep(bindings) == bindings

\* Relation.reset
reset(bindings) == [n \in DOMAIN bindings |-> <<>>]

\* a line of relationSetup.js: a call of bind or bindReverse with its arguments
Rule(sourceObjective, binding) == [sourceObjective |-> sourceObjective, binding |-> binding]

RECURSIVE BindAll(_, _)
BindAll(bindings, rules) ==
    IF rules = <<>> THEN bindings
    ELSE LET rule == Head(rules)
         IN  BindAll(_addBinding(bindings, rule.sourceObjective, rule.binding.localField,
                                 rule.binding.targetObjective, rule.binding.targetField,
                                 rule.binding.as, rule.binding.isReverse).bindings,
                     Tail(rules))

\* relationSetup.js, run when the world loads and at every /reload: reset(), then
\* the binds of the file in their order
relationSetup(bindings, rules) == BindAll(reset(bindings), rules)

\* the arguments of populate: rawData is null, an object or an array of objects;
\* relationsToPopulate is null, a string or an array of strings
RawNull == [kind |-> "null", docs |-> <<>>]
RawObject(doc) == [kind |-> "object", docs |-> <<doc>>]
RawArray(docs) == [kind |-> "array", docs |-> docs]

RelationsNull == [kind |-> "null", names |-> <<>>]
RelationsString(name) == [kind |-> "string", names |-> <<name>>]
RelationsArray(names) == [kind |-> "array", names |-> names]

\* if (relationsToPopulate): null and the empty string are not
RelationsTruthy(relationsToPopulate) ==
    \/ relationsToPopulate.kind = "array"
    \/ relationsToPopulate.kind = "string" /\ relationsToPopulate.names # <<"">>

\* no selection: every binding runs
FilterBindings_all(bindingList, relationsToPopulate) == bindingList

\* bindings.filter(binding => requestedRelations.includes(binding.as))
FilterBindings(bindingList, relationsToPopulate) ==
    IF RelationsTruthy(relationsToPopulate)
    THEN SelectSeq(bindingList,
                   LAMBDA binding :
                       \E i \in 1..Len(relationsToPopulate.names) :
                           relationsToPopulate.names[i] = binding.as)
    ELSE bindingList

\* targetVal.includes(localValue)
Includes(items, x) ==
    /\ x.t \notin {"array", "object"}
    /\ \E i \in 1..Len(items) : items[i] = x

\* targetRecords.find(record => record.data[targetField] === idToFind), then
\* match ? match.data : null
FindMatch(targetRecords, targetField, idToFind) ==
    LET hits == SelectSeq(targetRecords,
                          LAMBDA record :
                              StrictEquals(GetProp(record.data, targetField), idToFind))
    IN  IF hits = <<>> THEN Null ELSE hits[1].data

\* the value a binding gives to its alias for a local value that is there
Hydrate(binding, targetRecords, localValue) ==
    IF binding.isReverse
    THEN LET children ==
                SelectSeq(targetRecords,
                    LAMBDA record :
                        LET targetVal == GetProp(record.data, binding.targetField)
                        IN  IF targetVal.t = "array"
                            THEN Includes(targetVal.items, localValue)
                            ELSE StrictEquals(targetVal, localValue))
         IN  Arr([i \in 1..Len(children) |-> children[i].data])
    ELSE IF localValue.t = "array"
    THEN LET found == [i \in 1..Len(localValue.items) |->
                          FindMatch(targetRecords, binding.targetField,
                                    localValue.items[i])]
         IN  Arr(SelectSeq(found, LAMBDA item : item # Null))
    ELSE FindMatch(targetRecords, binding.targetField, localValue)

\* the loop of processSingle over the bindings: the result and the target
\* objectives read with getElements, in order
RECURSIVE RunBindings(_, _, _, _)
RunBindings(bindingList, board, result, targetsRead) ==
    IF bindingList = <<>> THEN [result |-> result, targetsRead |-> targetsRead]
    ELSE LET binding == Head(bindingList)
             localValue == GetProp(result, binding.localField)
         IN  IF localValue.t \in {"undefined", "null"}
             THEN RunBindings(Tail(bindingList), board,
                      Spread(result,
                             Obj(<<Prop(binding.as,
                                        IF binding.isReverse THEN Arr(<<>>) ELSE Null)>>)),
                      targetsRead)
             ELSE LET targetRecords ==
                        getElements(board, binding.targetObjective, QueryUndefined).ret
                  IN  RunBindings(Tail(bindingList), board,
                          Spread(result,
                                 Obj(<<Prop(binding.as,
                                            Hydrate(binding, targetRecords, localValue))>>)),
                          Append(targetsRead, binding.targetObjective))

\* the bindings run from the last one registered to the first
processSingle_backwards(bindingList, board, obj) ==
    LET backwards == [i \in 1..Len(bindingList) |->
                         bindingList[Len(bindingList) + 1 - i]]
        run == RunBindings(backwards, board, Spread(Obj(<<>>), obj), <<>>)
    IN  [result |-> run.result, obj |-> obj, targetsRead |-> run.targetsRead]

\* processSingle(obj): result is a new object, { ...obj }, that the loop writes to;
\* obj is left as it is
processSingle(bindingList, board, obj) ==
    LET run == RunBindings(bindingList, board, Spread(Obj(<<>>), obj), <<>>)
    IN  [result |-> run.result, obj |-> obj, targetsRead |-> run.targetsRead]

RECURSIVE Concat(_)
Concat(lists) == IF lists = <<>> THEN <<>> ELSE Head(lists) \o Concat(Tail(lists))

\* the scoreboard after the calls of ScoreboardStorage.getElements that populate
\* makes, on the target objectives in the order it reads them
RECURSIVE BoardAfterReads(_, _)
BoardAfterReads(board, targetsRead) ==
    IF targetsRead = <<>> THEN board
    ELSE BoardAfterReads(getElements(board, Head(targetsRead), QueryUndefined).board,
                         Tail(targetsRead))

\* Relation.populate: what it returns (null, an object or an array of objects),
\* whether that is rawData itself, rawData after the call, the target
\* objectives read, and the scoreboard and the registry after the call (the
\* list that filter() makes is a local one)
populate(bindings, board, objectiveName, rawData, relationsToPopulate) ==
    IF rawData.kind = "null"
    THEN [ret |-> RawNull, same |-> FALSE, rawData |-> rawData, targetsRead |-> <<>>,
          board |-> board, bindings |-> bindings]
    ELSE IF BindingsOf(bindings, objectiveName) = <<>>
    THEN [ret |-> rawData, same |-> TRUE, rawData |-> rawData, targetsRead |-> <<>>,
          board |-> board, bindings |-> bindings]
    ELSE LET bindingList == FilterBindings(BindingsOf(bindings, objectiveName),
                                           relationsToPopulate)
             each == [i \in 1..Len(rawData.docs) |->
                        processSingle(bindingList, board, rawData.docs[i])]
         IN  [ret |-> [kind |-> rawData.kind,
                       docs |-> [i \in 1..Len(each) |-> each[i].result]],
              same |-> FALSE,
              rawData |-> [kind |-> rawData.kind,
                           docs |-> [i \in 1..Len(each) |-> each[i].obj]],
              targetsRead |-> Concat([i \in 1..Len(each) |-> each[i].targetsRead]),
              board |-> BoardAfterReads(board,
                            Concat([i \in 1..Len(each) |-> each[i].targetsRead])),
              bindings |-> bindings]

(***************************************************************************)
(* DataSchema.  schemas is this.schemas of the schema manager: it maps a   *)
(* schema name to its definition, NoSchema for a name it does not have.    *)
(* Of a definition, define reads its keys only.  The metadata goes to the  *)
(* objective the manager was constructed with, through ScoreboardStorage.  *)
(***************************************************************************)
\* new DataSchema(scoreboardName): the schema manager
scoreboardName == "players"

SchemaNames == {"PlayerSchema", "GuildSchema"}

\* a schemaDefinition: an object with its keys in order, or null
SchemaObject(keys) == [kind |-> "object", keys |-> keys]
SchemaNull == [kind |-> "null", keys |-> <<>>]
NoSchema == [kind |-> "undefined", keys |-> <<>>]

\* { name: schemaName, fields: Object.keys(schemaDefinition), registeredAt: Date.now() }
schemaMetadata(schemaName, schemaDefinition, now) ==
    Obj(<<Prop("name", Str(schemaName)),
          Prop("fields", Arr([i \in 1..Len(schemaDefinition.keys) |->
                                 Str(schemaDefinition.keys[i])])),
          Prop("registeredAt", Num(now))>>)

\* a define that saves the metadata without looking for a record of the name
define_always(managed, board, schemaName, schemaDefinition, now) ==
    IF Trim(schemaName) = "" \/ schemaDefinition.kind # "object"
    THEN [schemas |-> managed, board |-> board, threw |-> "TypeError"]
    ELSE [schemas |-> [managed EXCEPT ![schemaName] = schemaDefinition],
          board |-> save(board, scoreboardName,
                         schemaMetadata(schemaName, schemaDefinition, now)).board,
          threw |-> save(board, scoreboardName,
                         schemaMetadata(schemaName, schemaDefinition, now)).threw]

\* DataSchema.define, at the time now: the manager's map, the scoreboard and the
\* error thrown
define(managed, board, schemaName, schemaDefinition, now) ==
    IF Trim(schemaName) = "" \/ schemaDefinition.kind # "object"
    THEN [schemas |-> managed, board |-> board, threw |-> "TypeError"]
    ELSE IF exists(board, scoreboardName,
                   QueryObject(<<Prop("name", Str(schemaName))>>)).ret
    THEN [schemas |-> [managed EXCEPT ![schemaName] = schemaDefinition],
          board |-> board, threw |-> "none"]
    ELSE [schemas |-> [managed EXCEPT ![schemaName] = schemaDefinition],
          board |-> save(board, scoreboardName,
                         schemaMetadata(schemaName, schemaDefinition, now)).board,
          threw |-> save(board, scoreboardName,
                         schemaMetadata(schemaName, schemaDefinition, now)).threw]

\* what a call of Relation leaves in last.relation
NoBinding == Binding("", "", "", "", FALSE)

NoRelationCall ==
    [binding |-> NoBinding, rawData |-> RawNull, relationsToPopulate |-> RelationsNull,
     ret |-> RawNull, same |-> FALSE, rawDataAfter |-> RawNull, targetsRead |-> <<>>,
     rules |-> <<>>]

(***************************************************************************)
(* The state: the scoreboard, the last call with its arguments and its     *)
(* outcome, and per objective the history of its ids: the id that the last *)
(* successful save returned (0 before the first), whether a deleteById has *)
(* removed a record below the highest id of its time, and whether one has  *)
(* removed the record of the highest id; the mirrors of CacheManager, and   *)
(* per objective the number of times _ensureLoaded has read it in full;    *)
(* the bindings registered with Relation, per source objective.            *)
(***************************************************************************)
VARIABLES scoreboard, last, issued, _memory, reads, _bindings, schemas

vars == <<scoreboard, last, issued, _memory, reads, _bindings, schemas>>

\* the documents the calls are made with
DocK1 == Obj(<<Prop("k", Num("1"))>>)
DocK1J == Obj(<<Prop("k", Num("1")), Prop("j", Str("a"))>>)
DocJ == Obj(<<Prop("j", Str("a"))>>)
DocNaN == Obj(<<Prop("k", NaN)>>)
DocLong == Obj(<<Prop("j", Str(LongText))>>)

InputIds == 1..MaxId

NoNewData == NewDataObject(DocUndefined)

\* the value a call returned, by its type: a number (an id, a count; 0 when the
\* call returns nothing), a boolean, a document or a list of records
RetOf(op, ret) ==
    [number |-> IF op \in {"save", "update", "delete", "count", "clear", "none",
                           "CacheManager.save"} THEN ret ELSE 0,
     boolean |-> IF op \in {"updateById", "deleteById", "exists",
                            "CacheManager.updateById", "CacheManager.deleteById"}
                 THEN ret ELSE FALSE,
     document |-> IF op \in {"getElementById", "CacheManager.getById"}
                  THEN ret ELSE DocUndefined,
     list |-> IF op \in {"getElements", "find", "findAll", "CacheManager.getAll"}
              THEN ret ELSE <<>>]

Call(op, objectiveName, id, data, query, newData, out) ==
    [op |-> op, objectiveName |-> objectiveName, id |-> id, data |-> data,
     query |-> query, newData |-> newData, ret |-> RetOf(op, out.ret),
     threw |-> out.threw, relation |-> NoRelationCall]

Init ==
    /\ scoreboard = [n \in ObjectiveNames |-> NoObjective]
    /\ issued = [n \in ObjectiveNames |->
                    [id |-> 0, deletedEarlier |-> FALSE, deletedHighest |-> FALSE]]
    /\ last = [op |-> "none", objectiveName |-> "", id |-> 0, data |-> DocUndefined,
               query |-> QueryUndefined, newData |-> NoNewData,
               ret |-> RetOf("none", 0), threw |-> "none", relation |-> NoRelationCall]
    /\ _memory = [n \in ObjectiveNames |-> NotLoaded]
    /\ reads = [n \in ObjectiveNames |-> 0]
    /\ _bindings = [n \in SourceObjectives |-> <<>>]
    /\ schemas = [n \in SchemaNames |-> NoSchema]

Save(objectiveName, data) ==
    LET out == save(scoreboard, objectiveName, data)
    IN  /\ out.threw = "none" => out.ret <= MaxId
        /\ scoreboard' = out.board
        /\ last' = Call("save", objectiveName, 0, data, QueryUndefined, NoNewData, out)
        /\ issued' = IF out.threw = "none"
                     THEN [issued EXCEPT ![objectiveName].id = out.ret]
                     ELSE issued
        /\ UNCHANGED <<_memory, reads, _bindings, schemas>>

GetElementById(objectiveName, id) ==
    LET out == getElementById(scoreboard, objectiveName, id)
    IN  /\ last' = Call("getElementById", objectiveName, id, DocUndefined,
                        QueryUndefined, NoNewData, out)
        /\ UNCHANGED <<scoreboard, issued, _memory, reads, _bindings, schemas>>

GetElements(objectiveName, query) ==
    LET out == getElements(scoreboard, objectiveName, query)
    IN  /\ last' = Call("getElements", objectiveName, 0, DocUndefined, query,
                        NoNewData, out)
        /\ UNCHANGED <<scoreboard, issued, _memory, reads, _bindings, schemas>>

Find(objectiveName, callback) ==
    LET out == find(scoreboard, objectiveName, callback)
    IN  /\ last' = Call("find", objectiveName, 0, DocUndefined, callback, NoNewData, out)
        /\ UNCHANGED <<scoreboard, issued, _memory, reads, _bindings, schemas>>

FindAll(objectiveName, callback) ==
    LET out == findAll(scoreboard, objectiveName, callback)
    IN  /\ last' = Call("findAll", objectiveName, 0, DocUndefined, callback,
                        NoNewData, out)
        /\ UNCHANGED <<scoreboard, issued, _memory, reads, _bindings, schemas>>

UpdateById(objectiveName, id, newData) ==
    LET out == updateById(scoreboard, objectiveName, id, newData)
    IN  /\ scoreboard' = out.board
        /\ last' = Call("updateById", objectiveName, id, newData, QueryUndefined,
                        NoNewData, out)
        /\ UNCHANGED <<issued, _memory, reads, _bindings, schemas>>

Update(objectiveName, query, newData) ==
    LET out == update(scoreboard, objectiveName, query, newData)
    IN  /\ scoreboard' = out.board
        /\ last' = Call("update", objectiveName, 0, DocUndefined, query, newData, out)
        /\ UNCHANGED <<issued, _memory, reads, _bindings, schemas>>

DeleteById(objectiveName, id) ==
    LET out == deleteById(scoreboard, objectiveName, id)
    IN  /\ scoreboard' = out.board
        /\ last' = Call("deleteById", objectiveName, id, DocUndefined, QueryUndefined,
                        NoNewData, out)
        /\ issued' =
            IF ~out.ret THEN issued
            ELSE IF id = MaxScore(getParticipants(scoreboard, objectiveName))
            THEN [issued EXCEPT ![objectiveName].deletedHighest = TRUE]
            ELSE [issued EXCEPT ![objectiveName].deletedEarlier = TRUE]
        /\ UNCHANGED <<_memory, reads, _bindings, schemas>>

Delete(objectiveName, query) ==
    LET out == delete(scoreboard, objectiveName, query)
    IN  /\ scoreboard' = out.board
        /\ last' = Call("delete", objectiveName, 0, DocUndefined, query, NoNewData, out)
        /\ UNCHANGED <<issued, _memory, reads, _bindings, schemas>>

Exists(objectiveName, query) ==
    LET out == exists(scoreboard, objectiveName, query)
    IN  /\ last' = Call("exists", objectiveName, 0, DocUndefined, query, NoNewData, out)
        /\ UNCHANGED <<scoreboard, issued, _memory, reads, _bindings, schemas>>

Count(objectiveName, query) ==
    LET out == count(scoreboard, objectiveName, query)
    IN  /\ last' = Call("count", objectiveName, 0, DocUndefined, query, NoNewData, out)
        /\ UNCHANGED <<scoreboard, issued, _memory, reads, _bindings, schemas>>

Clear(objectiveName) ==
    LET out == clear(scoreboard, objectiveName)
    IN  /\ scoreboard' = out.board
        /\ last' = Call("clear", objectiveName, 0, DocUndefined, QueryUndefined,
                        NoNewData, out)
        /\ UNCHANGED <<issued, _memory, reads, _bindings, schemas>>

\* another add-on gives a score to a participant of its own, whose name is not JSON
ForeignSetScore(objectiveName, displayName, score) ==
    /\ HasObjective(scoreboard, objectiveName)
    /\ scoreboard' = WithParticipants(scoreboard, objectiveName,
                        setScore(getParticipants(scoreboard, objectiveName),
                                 displayName, score))
    /\ last' = [op |-> "foreign", objectiveName |-> objectiveName, id |-> score,
                data |-> DocUndefined, query |-> QueryUndefined, newData |-> NoNewData,
                ret |-> RetOf("none", 0), threw |-> "none", relation |-> NoRelationCall]
    /\ UNCHANGED <<issued, _memory, reads, _bindings, schemas>>

(***************************************************************************)
(* The calls by record id, with documents that JSON keeps, a document that *)
(* it alters (NaN) and documents that save rejects.                        *)
(***************************************************************************)
InputDocs == {DocK1, DocNaN, DocUndefined, DocLong}

UpdateDocs == {DocK1, DocJ, DocNaN, DocLong}

Next ==
    \E objectiveName \in ObjectiveNames :
        \/ \E data \in InputDocs : Save(objectiveName, data)
        \/ \E id \in InputIds : GetElementById(objectiveName, id)
        \/ \E id \in InputIds, newData \in UpdateDocs :
              UpdateById(objectiveName, id, newData)
        \/ \E id \in InputIds : DeleteById(objectiveName, id)
        \/ Count(objectiveName, QueryUndefined)

Spec == Init /\ [][Next]_vars

(***************************************************************************)
(* save and deleteById alone.                                              *)
(***************************************************************************)
NextSaveDelete ==
    \E objectiveName \in ObjectiveNames :
        \/ \E data \in {DocK1, DocK1J, DocJ, DocNull} : Save(objectiveName, data)
        \/ \E id \in InputIds : DeleteById(objectiveName, id)

SpecSaveDelete == Init /\ [][NextSaveDelete]_vars

(***************************************************************************)
(* The calls that change a collection, with documents and replacement      *)
(* data that make rewritten records collide with other records.            *)
(***************************************************************************)
MutateDocs == {DocK1, DocK1J, DocUndefined}

MutateQueries == {QueryObject(<<Prop("k", Num("1"))>>), QueryFunction("hasJ")}

MutateNewData ==
    {NewDataObject(DocJ), NewDataFunction("constJ"), NewDataFunction("noReturn")}

NextMutate ==
    \E objectiveName \in ObjectiveNames :
        \/ \E data \in MutateDocs : Save(objectiveName, data)
        \/ \E id \in InputIds, newData \in MutateDocs :
              UpdateById(objectiveName, id, newData)
        \/ \E query \in MutateQueries, newData \in MutateNewData :
              Update(objectiveName, query, newData)
        \/ \E id \in InputIds : DeleteById(objectiveName, id)
        \/ \E query \in MutateQueries : Delete(objectiveName, query)
        \/ Clear(objectiveName)

SpecMutate == Init /\ [][NextMutate]_vars

(***************************************************************************)
(* The calls that read by query, over collections built by save and        *)
(* deleteById.                                                             *)
(***************************************************************************)
QueryDocs == {DocK1, DocK1J, DocJ, DocNaN}

ObjectQueries ==
    { QueryObject(<<Prop("k", Num("1"))>>),
      QueryObject(<<Prop("k", Num("1")), Prop("j", Str("a"))>>),
      QueryObject(<<Prop("k", Undefined)>>) }

FunctionQueries == {QueryFunction("hasJ")}

NextQuery ==
    \E objectiveName \in ObjectiveNames :
        \/ \E data \in QueryDocs : Save(objectiveName, data)
        \/ \E id \in InputIds : DeleteById(objectiveName, id)
        \/ \E query \in {QueryUndefined} \cup ObjectQueries \cup FunctionQueries :
              GetElements(objectiveName, query)
        \/ \E callback \in FunctionQueries : Find(objectiveName, callback)
        \/ \E callback \in FunctionQueries : FindAll(objectiveName, callback)
        \/ \E query \in ObjectQueries : Exists(objectiveName, query)
        \/ \E query \in ObjectQueries \cup FunctionQueries : Count(objectiveName, query)

SpecQuery == Init /\ [][NextQuery]_vars

(***************************************************************************)
(* The calls by record id on an objective that another add-on writes to   *)
(* as well.                                                                *)
(***************************************************************************)
ForeignNames == {<<RawTok("Steve")>>}

NextShared ==
    \E objectiveName \in ObjectiveNames :
        \/ \E data \in {DocK1, DocNull} : Save(objectiveName, data)
        \/ \E name \in ForeignNames, score \in InputIds :
              ForeignSetScore(objectiveName, name, score)
        \/ \E id \in InputIds : GetElementById(objectiveName, id)
        \/ GetElements(objectiveName, QueryUndefined)
        \/ \E id \in InputIds : DeleteById(objectiveName, id)
        \/ \E query \in {QueryUndefined} \cup {QueryNumber(id) : id \in InputIds} :
              Exists(objectiveName, query)
        \/ Count(objectiveName, QueryUndefined)

SpecShared == Init /\ [][NextShared]_vars

(***************************************************************************)
(* update over collections of documents with different fields, with        *)
(* replacement data that keeps the rewritten records apart or makes them   *)
(* collide.                                                                *)
(***************************************************************************)
DocK1M == Obj(<<Prop("k", Num("1")), Prop("m", Str("b"))>>)

UpdateQueries == {QueryObject(<<Prop("k", Num("1"))>>), QueryFunction("hasJ")}

UpdateNewData == {NewDataObject(DocJ), NewDataFunction("constJ")}

NextUpdate ==
    \E objectiveName \in ObjectiveNames :
        \/ \E data \in {DocK1, DocK1M, DocJ} : Save(objectiveName, data)
        \/ \E query \in UpdateQueries, newData \in UpdateNewData :
              Update(objectiveName, query, newData)

SpecUpdate == Init /\ [][NextUpdate]_vars

(***************************************************************************)
(* Calls with names and ids that the contract rejects.  An id argument is  *)
(* a number (kind "number", an integer; kind "fraction", id + 1/2), NaN    *)
(* (kind "NaN") or a string (kind "string").                               *)
(***************************************************************************)
IdNumber(n) == QueryNumber(n)
IdFraction(n) == [kind |-> "fraction", fields |-> <<>>, fn |-> "", id |-> n]
IdNaN == [kind |-> "NaN", fields |-> <<>>, fn |-> "", id |-> 0]
IdString(s) == [kind |-> "string", fields |-> <<>>, fn |-> s, id |-> 0]

\* typeof id !== "number" || isNaN(id)
IdError(idArg) ==
    IF idArg.kind \in {"number", "fraction"} THEN "none" ELSE "TypeError"

\* the score that objective.getScore(p) === id compares with: the integer, and
\* for a number that is not an integer a score that no participant has, since
\* the comparison is false for every participant (scores are integers, and
\* those of records begin at 1)
ScoreToFind(idArg) == IF idArg.kind = "number" THEN idArg.id ELSE 0

GetElementByIdArg(objectiveName, idArg) ==
    LET out == IF IdError(idArg) # "none"
               THEN Outcome(scoreboard, DocNull, IdError(idArg))
               ELSE getElementById(scoreboard, objectiveName, ScoreToFind(idArg))
    IN  /\ last' = Call("getElementById", objectiveName, ScoreToFind(idArg),
                        DocUndefined, idArg, NoNewData, out)
        /\ UNCHANGED <<scoreboard, issued, _memory, reads, _bindings, schemas>>

UpdateByIdArg(objectiveName, idArg, newData) ==
    LET out == IF IdError(idArg) # "none"
               THEN Outcome(scoreboard, FALSE, IdError(idArg))
               ELSE updateById(scoreboard, objectiveName, ScoreToFind(idArg), newData)
    IN  /\ scoreboard' = out.board
        /\ last' = Call("updateById", objectiveName, ScoreToFind(idArg), newData,
                        idArg, NoNewData, out)
        /\ UNCHANGED <<issued, _memory, reads, _bindings, schemas>>

DeleteByIdArg(objectiveName, idArg) ==
    LET out == IF IdError(idArg) # "none"
               THEN Outcome(scoreboard, FALSE, IdError(idArg))
               ELSE deleteById(scoreboard, objectiveName, ScoreToFind(idArg))
    IN  /\ scoreboard' = out.board
        /\ last' = Call("deleteById", objectiveName, ScoreToFind(idArg), DocUndefined,
                        idArg, NoNewData, out)
        /\ UNCHANGED <<issued, _memory, reads, _bindings, schemas>>

\* an empty name and a name of 17 characters
RejectedNames == {"", "seventeen_letters"}

InputNames == ObjectiveNames \cup RejectedNames

IdArguments == {IdNumber(1), IdFraction(1), IdNaN, IdString("1")}

NextArguments ==
    \E objectiveName \in InputNames :
        \/ \E data \in {DocK1, DocJ} : Save(objectiveName, data)
        \/ \E idArg \in IdArguments : GetElementByIdArg(objectiveName, idArg)
        \/ GetElements(objectiveName, QueryUndefined)
        \/ Find(objectiveName, QueryFunction("hasJ"))
        \/ FindAll(objectiveName, QueryFunction("hasJ"))
        \/ \E idArg \in IdArguments : UpdateByIdArg(objectiveName, idArg, DocK1)
        \/ Update(objectiveName, QueryFunction("hasJ"), NewDataObject(DocK1))
        \/ \E idArg \in IdArguments : DeleteByIdArg(objectiveName, idArg)
        \/ Delete(objectiveName, QueryFunction("hasJ"))
        \/ Exists(objectiveName, QueryUndefined)
        \/ Count(objectiveName, QueryUndefined)
        \/ Clear(objectiveName)

SpecArguments == Init /\ [][NextArguments]_vars

(***************************************************************************)
(* Every read, on an objective that another add-on writes to as well.      *)
(***************************************************************************)
ReadQueries == {QueryObject(<<Prop("k", Num("1"))>>), QueryFunction("hasJ")}

NextForeign ==
    \E objectiveName \in ObjectiveNames :
        \/ \E data \in {DocK1, DocK1J} : Save(objectiveName, data)
        \/ \E name \in ForeignNames, score \in InputIds :
              ForeignSetScore(objectiveName, name, score)
        \/ \E id \in InputIds : GetElementById(objectiveName, id)
        \/ \E query \in {QueryUndefined} \cup ReadQueries :
              GetElements(objectiveName, query)
        \/ Find(objectiveName, QueryFunction("hasJ"))
        \/ FindAll(objectiveName, QueryFunction("hasJ"))
        \/ \E query \in {QueryUndefined, QueryObject(<<Prop("k", Num("1"))>>)}
                          \cup {QueryNumber(id) : id \in InputIds} :
              Exists(objectiveName, query)
        \/ \E query \in {QueryUndefined} \cup ReadQueries : Count(objectiveName, query)

SpecForeign == Init /\ [][NextForeign]_vars

(***************************************************************************)
(* The calls of CacheManager.  A call leaves in last what a Storage call   *)
(* leaves, under the name CacheManager.<method>.                           *)
(***************************************************************************)
CacheSave(objectiveName, data) ==
    LET out == CacheManager_save(_memory, scoreboard, objectiveName, data)
    IN  /\ out.threw = "none" => out.ret <= MaxId
        /\ scoreboard' = out.board
        /\ _memory' = out.memory
        /\ reads' = [reads EXCEPT ![objectiveName] = @ + out.reads]
        /\ last' = Call("CacheManager.save", objectiveName, 0, data, QueryUndefined,
                        NoNewData, out)
        /\ UNCHANGED <<_bindings, schemas>>
        /\ issued' = IF out.threw = "none"
                     THEN [issued EXCEPT ![objectiveName].id = out.ret]
                     ELSE issued

CacheGetById(objectiveName, id) ==
    LET out == CacheManager_getById(_memory, scoreboard, objectiveName, id)
    IN  /\ _memory' = out.memory
        /\ reads' = [reads EXCEPT ![objectiveName] = @ + out.reads]
        /\ last' = Call("CacheManager.getById", objectiveName, id, DocUndefined,
                        QueryUndefined, NoNewData, out)
        /\ UNCHANGED <<scoreboard, issued, _bindings, schemas>>

CacheGetAll(objectiveName) ==
    LET out == CacheManager_getAll(_memory, scoreboard, objectiveName)
    IN  /\ _memory' = out.memory
        /\ reads' = [reads EXCEPT ![objectiveName] = @ + out.reads]
        /\ last' = Call("CacheManager.getAll", objectiveName, 0, DocUndefined,
                        QueryUndefined, NoNewData, out)
        /\ UNCHANGED <<scoreboard, issued, _bindings, schemas>>

CacheUpdateById(objectiveName, id, newData) ==
    LET out == CacheManager_updateById(_memory, scoreboard, objectiveName, id, newData)
    IN  /\ scoreboard' = out.board
        /\ _memory' = out.memory
        /\ reads' = [reads EXCEPT ![objectiveName] = @ + out.reads]
        /\ last' = Call("CacheManager.updateById", objectiveName, id, newData,
                        QueryUndefined, NoNewData, out)
        /\ UNCHANGED <<issued, _bindings, schemas>>

CacheDeleteById(objectiveName, id) ==
    LET out == CacheManager_deleteById(_memory, scoreboard, objectiveName, id)
    IN  /\ scoreboard' = out.board
        /\ _memory' = out.memory
        /\ reads' = [reads EXCEPT ![objectiveName] = @ + out.reads]
        /\ last' = Call("CacheManager.deleteById", objectiveName, id, DocUndefined,
                        QueryUndefined, NoNewData, out)
        /\ UNCHANGED <<_bindings, schemas>>
        /\ issued' =
            IF ~out.ret THEN issued
            ELSE IF id = MaxScore(getParticipants(scoreboard, objectiveName))
            THEN [issued EXCEPT ![objectiveName].deletedHighest = TRUE]
            ELSE [issued EXCEPT ![objectiveName].deletedEarlier = TRUE]

(***************************************************************************)
(* An objective that is written through CacheManager alone.                *)
(***************************************************************************)
NextCacheOnly ==
    \E objectiveName \in ObjectiveNames :
        \/ \E data \in {DocK1, DocJ} : CacheSave(objectiveName, data)
        \/ \E id \in InputIds : CacheGetById(objectiveName, id)
        \/ CacheGetAll(objectiveName)
        \/ \E id \in InputIds : CacheUpdateById(objectiveName, id, DocJ)
        \/ \E id \in InputIds : CacheDeleteById(objectiveName, id)

SpecCacheOnly == Init /\ [][NextCacheOnly]_vars

(***************************************************************************)
(* An objective that is written through CacheManager with calls that fail: *)
(* a save of undefined, an update with undefined or of an id that is not   *)
(* stored, a delete of an id that is not stored.  A direct save may come   *)
(* before the mirror is loaded.                                            *)
(***************************************************************************)
NextCacheFailing ==
    \E objectiveName \in ObjectiveNames :
        \/ \E data \in {DocK1, DocUndefined} : CacheSave(objectiveName, data)
        \/ CacheGetAll(objectiveName)
        \/ \E id \in InputIds, newData \in {DocJ, DocUndefined} :
               CacheUpdateById(objectiveName, id, newData)
        \/ \E id \in InputIds : CacheDeleteById(objectiveName, id)
        \/ Save(objectiveName, DocK1)

SpecCacheFailing == Init /\ [][NextCacheFailing]_vars

(***************************************************************************)
(* An objective that is read through CacheManager while ScoreboardStorage  *)
(* is called directly.                                                     *)
(***************************************************************************)
NextCacheDirect ==
    \E objectiveName \in ObjectiveNames :
        \/ CacheSave(objectiveName, DocK1)
        \/ \E id \in InputIds : CacheGetById(objectiveName, id)
        \/ CacheGetAll(objectiveName)
        \/ Save(objectiveName, DocJ)
        \/ \E id \in InputIds : DeleteById(objectiveName, id)

SpecCacheDirect == Init /\ [][NextCacheDirect]_vars

(***************************************************************************)
(* An objective whose records are destroyed through CacheManager and by    *)
(* direct calls of ScoreboardStorage.                                      *)
(***************************************************************************)
NextDestroy ==
    \E objectiveName \in ObjectiveNames :
        \/ CacheSave(objectiveName, DocK1)
        \/ \E id \in InputIds : CacheDeleteById(objectiveName, id)
        \/ \E id \in InputIds : DeleteById(objectiveName, id)
        \/ Delete(objectiveName, QueryObject(<<Prop("k", Num("1"))>>))
        \/ Clear(objectiveName)

SpecDestroy == Init /\ [][NextDestroy]_vars

(***************************************************************************)
(* The calls of Relation.  A call leaves its name, the source objective    *)
(* and the error it throws in last, and its own arguments and results in   *)
(* last.relation.                                                          *)
(***************************************************************************)
RelationCall(op, objectiveName, threw, relation) ==
    [op |-> op, objectiveName |-> objectiveName, id |-> 0, data |-> DocUndefined,
     query |-> QueryUndefined, newData |-> NoNewData, ret |-> RetOf("none", 0),
     threw |-> threw, relation |-> relation]

Bind(sourceObjective, localField, targetObjective, targetField, as) ==
    LET out == bind(_bindings, sourceObjective, localField, targetObjective,
                    targetField, as)
    IN  /\ out.threw = "none"
           => Len(BindingsOf(_bindings, sourceObjective)) < MaxBindings
        /\ _bindings' = out.bindings
        /\ last' = RelationCall("bind", sourceObjective, out.threw,
                       [NoRelationCall EXCEPT
                          !.binding = Binding(localField, targetObjective, targetField,
                                              as, FALSE)])
        /\ UNCHANGED <<scoreboard, issued, _memory, reads, schemas>>

BindReverse(sourceObjective, localField, targetObjective, targetField, as) ==
    LET out == bindReverse(_bindings, sourceObjective, localField, targetObjective,
                           targetField, as)
    IN  /\ out.threw = "none"
           => Len(BindingsOf(_bindings, sourceObjective)) < MaxBindings
        /\ _bindings' = out.bindings
        /\ last' = RelationCall("bindReverse", sourceObjective, out.threw,
                       [NoRelationCall EXCEPT
                          !.binding = Binding(localField, targetObjective, targetField,
                                              as, TRUE)])
        /\ UNCHANGED <<scoreboard, issued, _memory, reads, schemas>>

Populate(objectiveName, rawData, relationsToPopulate) ==
    \E out \in {populate(_bindings, scoreboard, objectiveName, rawData,
                         relationsToPopulate)} :
        /\ last' = RelationCall("populate", objectiveName, "none",
                       [NoRelationCall EXCEPT
                          !.rawData = rawData,
                          !.relationsToPopulate = relationsToPopulate,
                          !.ret = out.ret,
                          !.same = out.same,
                          !.rawDataAfter = out.rawData,
                          !.targetsRead = out.targetsRead])
        /\ scoreboard' = out.board
        /\ _bindings' = out.bindings
        /\ UNCHANGED <<issued, _memory, reads, schemas>>

Reset ==
    /\ _bindings' = reset(_bindings)
    /\ last' = RelationCall("reset", "", "none", NoRelationCall)
    /\ UNCHANGED <<scoreboard, issued, _memory, reads, schemas>>

RelationSetup(rules) ==
    /\ _bindings' = relationSetup(_bindings, rules)
    /\ last' = RelationCall("relationSetup", "", "none",
                   [NoRelationCall EXCEPT !.rules = rules])
    /\ UNCHANGED <<scoreboard, issued, _memory, reads, schemas>>

\* the rules of a setup file: none, one, or two for members and one for guilds
GuildRule == Rule("members", Binding("guildId", "players", "uuid", "guildData", FALSE))

PetRule == Rule("members", Binding("petId", "pets", "uuid", "petData", FALSE))

MemberRule == Rule("guilds", Binding("uuid", "players", "uuid", "memberData", TRUE))

Setups == {<<>>, <<GuildRule>>, <<GuildRule, MemberRule, PetRule>>}

\* the documents of the target objective
GuildX == Obj(<<Prop("uuid", Str("g1")), Prop("name", Str("X"))>>)
GuildY == Obj(<<Prop("uuid", Str("g1")), Prop("name", Str("Y"))>>)
GuildList == Obj(<<Prop("uuid", Arr(<<Str("g2"), Str("g1")>>))>>)

\* the documents populate is called with
MemberG1 == Obj(<<Prop("guildId", Str("g1"))>>)
MemberG2 == Obj(<<Prop("guildId", Str("g2"))>>)
MemberNone == Obj(<<Prop("name", Str("n"))>>)
MemberNull == Obj(<<Prop("guildId", Null)>>)
MemberList == Obj(<<Prop("guildId", Arr(<<Str("g1"), Str("g3"), Str("g1")>>))>>)

\* the aliases: a field of its own, and the local field itself, which the
\* binding then replaces by the documents it refers to
Aliases == {"guildData", "guildId"}

(***************************************************************************)
(* Direct bindings of the local field guildId to the field uuid of the     *)
(* records stored in the objective players.                                *)
(***************************************************************************)
NextDirect ==
    \/ \E data \in {GuildX, GuildY, GuildList} : Save("players", data)
    \/ \E as \in Aliases : Bind("members", "guildId", "players", "uuid", as)
    \/ \E data \in {MemberG1, MemberG2, MemberList} :
           Populate("members", RawObject(data), RelationsNull)

SpecDirect == Init /\ [][NextDirect]_vars

(***************************************************************************)
(* Direct and reverse bindings, and source documents that lack the local   *)
(* field or hold null in it.                                               *)
(***************************************************************************)
NextMissing ==
    \/ Save("players", GuildX)
    \/ \E as \in Aliases : Bind("members", "guildId", "players", "uuid", as)
    \/ \E as \in Aliases : BindReverse("members", "guildId", "players", "uuid", as)
    \/ \E data \in {MemberNone, MemberNull} :
           Populate("members", RawObject(data), RelationsNull)

SpecMissing == Init /\ [][NextMissing]_vars

(***************************************************************************)
(* Bindings to two target objectives, players and pets, and populate with  *)
(* a selection of aliases.                                                 *)
(***************************************************************************)
MemberPet == Obj(<<Prop("guildId", Str("g1")), Prop("petId", Str("p1"))>>)

Selections ==
    {RelationsString("guildData"), RelationsString(""),
     RelationsArray(<<"guildData">>), RelationsArray(<<"petData", "guildData">>),
     RelationsArray(<<>>)}

NextSelective ==
    \/ Save("players", GuildX)
    \/ \E as \in Aliases : Bind("members", "guildId", "players", "uuid", as)
    \/ Bind("members", "petId", "pets", "uuid", "petData")
    \/ \E relationsToPopulate \in Selections :
           Populate("members", RawObject(MemberPet), relationsToPopulate)

SpecSelective == Init /\ [][NextSelective]_vars

(***************************************************************************)
(* Reverse bindings: the records of players refer to the source document   *)
(* in their field uuid, by a value or by an array that holds it.           *)
(***************************************************************************)
NextReverse ==
    \/ \E data \in {GuildX, GuildY, GuildList} : Save("players", data)
    \/ \E as \in Aliases : BindReverse("members", "guildId", "players", "uuid", as)
    \/ \E data \in {MemberG1, MemberG2} :
           Populate("members", RawObject(data), RelationsNull)

SpecReverse == Init /\ [][NextReverse]_vars

(***************************************************************************)
(* populate with every shape of rawData, with bindings registered and      *)
(* with none.                                                              *)
(***************************************************************************)
NextClone ==
    \/ Save("players", GuildX)
    \/ \E as \in Aliases : Bind("members", "guildId", "players", "uuid", as)
    \/ \E rawData \in {RawNull, RawObject(MemberG1), RawObject(MemberNone),
                       RawArray(<<MemberG1, MemberNone>>)} :
           Populate("members", rawData, RelationsNull)
    \/ Reset

SpecClone == Init /\ [][NextClone]_vars

(***************************************************************************)
(* Registration with parameters that may be the empty string.              *)
(***************************************************************************)
NextBind ==
    \/ \E sourceObjective \in {"members", ""}, localField \in {"guildId", ""},
          targetObjective \in {"players", ""}, targetField \in {"uuid", ""},
          as \in Aliases \cup {""} :
           Bind(sourceObjective, localField, targetObjective, targetField, as)
    \/ \E sourceObjective \in {"members", ""}, localField \in {"guildId", ""},
          targetObjective \in {"players", ""}, targetField \in {"uuid", ""},
          as \in Aliases \cup {""} :
           BindReverse(sourceObjective, localField, targetObjective, targetField, as)

SpecBind == Init /\ [][NextBind]_vars

(***************************************************************************)
(* Bindings that may share an alias: direct ones to players and to pets    *)
(* (an objective that holds nothing) and reverse ones to players.          *)
(***************************************************************************)
NextDuplicate ==
    \/ Save("players", GuildX)
    \/ \E as \in Aliases, targetObjective \in {"players", "pets"} :
           Bind("members", "guildId", targetObjective, "uuid", as)
    \/ \E as \in Aliases : BindReverse("members", "guildId", "players", "uuid", as)
    \/ \E data \in {MemberG1, MemberNone} :
           Populate("members", RawObject(data), RelationsNull)

SpecDuplicate == Init /\ [][NextDuplicate]_vars

(***************************************************************************)
(* Reloads: single binds, reset, the setup file, and populate for both     *)
(* source objectives.                                                      *)
(***************************************************************************)
NextReload ==
    \/ Save("players", GuildX)
    \/ \E sourceObjective \in SourceObjectives :
           Bind(sourceObjective, "guildId", "players", "uuid", "guildData")
    \/ Reset
    \/ \E rules \in Setups : RelationSetup(rules)
    \/ \E objectiveName \in SourceObjectives,
          rawData \in {RawObject(MemberG1), RawArray(<<MemberG1, MemberNone>>)} :
           Populate(objectiveName, rawData, RelationsNull)

SpecReload == Init /\ [][NextReload]_vars

(***************************************************************************)
(* delete with each kind of query, the absent one included.                *)
(***************************************************************************)
NextDelete ==
    \E objectiveName \in ObjectiveNames :
        \/ \E data \in {DocK1, DocK1J, DocJ} : Save(objectiveName, data)
        \/ \E query \in MutateQueries \cup {QueryUndefined} : Delete(objectiveName, query)

SpecDelete == Init /\ [][NextDelete]_vars

(***************************************************************************)
(* The calls that read by query over an objective that may hold the        *)
(* document 0, which parses to a value that is not null and not truthy.    *)
(***************************************************************************)
FalsyPredicates == {QueryFunction("hasJ"), QueryFunction("noJ")}

FalsyMappings == {QueryObject(<<>>), QueryObject(<<Prop("k", Num("1"))>>)}

NextFalsy ==
    \E objectiveName \in ObjectiveNames :
        \/ \E data \in {DocK1, DocJ, DocNumber("0")} : Save(objectiveName, data)
        \/ \E query \in FalsyPredicates \cup FalsyMappings :
              GetElements(objectiveName, query)
        \/ \E callback \in FalsyPredicates : Find(objectiveName, callback)
        \/ \E callback \in FalsyPredicates : FindAll(objectiveName, callback)
        \/ \E query \in FalsyMappings : Exists(objectiveName, query)
        \/ \E query \in FalsyPredicates \cup FalsyMappings : Count(objectiveName, query)

SpecFalsy == Init /\ [][NextFalsy]_vars

(***************************************************************************)
(* What the claims speak of.                                               *)
(***************************************************************************)
Participants(objectiveName) == getParticipants(scoreboard, objectiveName)

Scores(participants) == {participants[i].score : i \in 1..Len(participants)}

\* the call last made returned
Returned(op) == last.op = op /\ last.threw = "none"

\* JSON has a text for every value of the document: an object whose properties
\* are strings, null and numbers other than NaN, or null
JsonKeeps(data) ==
    \/ data.t = "null"
    \/ /\ data.t = "object"
       /\ \A i \in 1..Len(data.fields) :
            /\ data.fields[i].val.t \in {"string", "number", "null"}
            /\ data.fields[i].val # NaN

\* the document that the JSON text of data denotes
JsonImage(data) == JsonParse(JsonStringify(data)).value

(***************************************************************************)
(* C1.  As stated: for every document d that save accepts,                 *)
(* getElementById(c, save(c, d)) returns d.                                *)
(***************************************************************************)
C1_RoundTripOfEveryDocument ==
    Returned("save") =>
        getElementById(scoreboard, last.objectiveName, last.ret.number).ret = last.data

\* C1, amended: getElementById(c, save(c, d)) returns the document that the
\* JSON text of d denotes, which is d when JSON has a text for every value of d
\* (no NaN), whatever records the collection held before the save.
C1_RoundTrip ==
    Returned("save") =>
        LET got == getElementById(scoreboard, last.objectiveName, last.ret.number).ret
        IN  /\ got = JsonImage(last.data)
            /\ JsonKeeps(last.data) => got = last.data

\* a document that JSON keeps was saved into a collection that held a record
C1_Witness ==
    /\ Returned("save") /\ last.data = DocK1 /\ last.ret.number = 2
    /\ Len(Participants(last.objectiveName)) = 2

(***************************************************************************)
(* C2.  The ids that successive saves on a collection return are strictly  *)
(* increasing and begin with 1, also when deleteById calls on earlier ids  *)
(* (ids below the highest of the collection) come between the saves.       *)
(***************************************************************************)
C2_IdsIncrease ==
    [][ (last'.op = "save" /\ last'.threw = "none"
          /\ ~issued[last'.objectiveName].deletedHighest)
        => /\ last'.ret.number > issued[last'.objectiveName].id
           /\ issued[last'.objectiveName].id = 0 => last'.ret.number = 1 ]_vars

\* the third save, after a deleteById of an earlier id and none of the highest
C2_Witness ==
    /\ Returned("save") /\ last.ret.number = 3
    /\ issued[last.objectiveName].deletedEarlier
    /\ ~issued[last.objectiveName].deletedHighest

(***************************************************************************)
(* C3.  Whatever save, updateById, update, deleteById, delete and clear    *)
(* calls were made on a collection that started empty, no two of its       *)
(* entries carry the same id.                                              *)
(***************************************************************************)
C3_UniqueIds ==
    \A c \in ObjectiveNames :
        \A i, j \in 1..Len(Participants(c)) :
            Participants(c)[i].score = Participants(c)[j].score => i = j

\* an update rewrote two records into one document, which left one entry
C3_Witness ==
    /\ Returned("update") /\ last.ret.number = 2
    /\ Len(Participants(last.objectiveName)) = 1

(***************************************************************************)
(* C4.  Saving a document whose JSON text an entry of the collection       *)
(* already has adds no entry: the collection keeps one entry of that text, *)
(* found under the id the save returned, and the id the entry had before   *)
(* resolves to no record.                                                  *)
(***************************************************************************)
C4_SameTextSameEntry ==
    [][ LET c == last'.objectiveName
            json == _stringify(last'.data).json
            before == getParticipants(scoreboard, c)
            after == getParticipants(scoreboard', c)
        IN  (/\ last'.op = "save" /\ last'.threw = "none"
             /\ HasObjective(scoreboard, c)
             /\ IsParticipant(before, json))
            => /\ Len(after) = Len(before)
               /\ Len(SelectSeq(after, LAMBDA p : p.displayName = json)) = 1
               /\ WithScore(after, last'.ret.number)
                    = <<[displayName |-> json, score |-> last'.ret.number]>>
               /\ getElementById(scoreboard', c, last'.ret.number).ret = _parse(json)
               /\ WithScore(after, getScore(before, [displayName |-> json])) = <<>>
               /\ getElementById(scoreboard', c,
                                 getScore(before, [displayName |-> json])).ret
                    = DocNull
               /\ ~exists(scoreboard', c,
                          QueryNumber(getScore(before, [displayName |-> json]))).ret
      ]_vars

\* the second save found the only entry of the collection to have its text
C4_Witness ==
    /\ Returned("save") /\ last.ret.number = 2 /\ last.data = DocK1
    /\ Participants(last.objectiveName)
         = <<[displayName |-> JsonStringify(DocK1), score |-> 2]>>

(***************************************************************************)
(* C5.  updateById(c, id, d) with an id that no entry of c carries returns *)
(* false and leaves every entry of c as it was.                            *)
(***************************************************************************)
C5_UpdateOfAbsentId ==
    [][ LET c == last'.objectiveName
        IN  (/\ last'.op = "updateById"
             /\ ~(/\ HasObjective(scoreboard, c)
                  /\ last'.id \in Scores(getParticipants(scoreboard, c))))
            => /\ scoreboard' = scoreboard
               /\ _stringify(last'.data).threw = "none"
                    => last'.threw = "none" /\ last'.ret.boolean = FALSE
      ]_vars

\* false for an id that the collection, which has a record, does not hold
C5_Witness ==
    /\ Returned("updateById") /\ last.ret.boolean = FALSE /\ last.data = DocK1
    /\ Len(Participants(last.objectiveName)) > 0
    /\ last.id \notin Scores(Participants(last.objectiveName))

(***************************************************************************)
(* C6.  As stated: when updateById(c, id, d) returns true,                 *)
(* getElementById(c, id) afterwards returns d.                             *)
(***************************************************************************)
C6_UpdateReturnsEveryDocument ==
    (Returned("updateById") /\ last.ret.boolean) =>
        getElementById(scoreboard, last.objectiveName, last.id).ret = last.data

\* C6, amended: when updateById(c, id, d) returns true the record keeps its id
\* and its document is fully replaced: one entry carries id, getElementById(c, id)
\* returns the document that the JSON text of d denotes, which is d when JSON has
\* a text for every value of d (no NaN), and no field of the old document is in
\* it unless d has it.
C6_UpdateReplaces ==
    [][ LET c == last'.objectiveName
            old == getElementById(scoreboard, c, last'.id).ret
            got == getElementById(scoreboard', c, last'.id).ret
        IN  (last'.op = "updateById" /\ last'.threw = "none" /\ last'.ret.boolean)
            => /\ WithScore(getParticipants(scoreboard', c), last'.id)
                    = <<[displayName |-> JsonStringify(last'.data),
                         score |-> last'.id]>>
               /\ got = JsonImage(last'.data)
               /\ JsonKeeps(last'.data) => got = last'.data
               /\ \A k \in OwnKeys(old) : k \in OwnKeys(got) => HasOwn(last'.data, k)
      ]_vars

\* a record of a collection of two was given a document without its old field
C6_Witness ==
    /\ Returned("updateById") /\ last.ret.boolean /\ last.data = DocJ
    /\ Len(Participants(last.objectiveName)) = 2
    /\ getElementById(scoreboard, last.objectiveName, last.id).ret = DocJ

(***************************************************************************)
(* C7.  After deleteById(c, id) returns true, getElementById(c, id)        *)
(* returns null and count(c) is one less than before the call.             *)
(***************************************************************************)
C7_DeleteRemovesOne ==
    [][ LET c == last'.objectiveName
        IN  (last'.op = "deleteById" /\ last'.threw = "none" /\ last'.ret.boolean)
            => /\ getElementById(scoreboard', c, last'.id).ret = DocNull
               /\ count(scoreboard', c, QueryUndefined).ret
                    = count(scoreboard, c, QueryUndefined).ret - 1
      ]_vars

\* a record was deleted from a collection that keeps another
C7_Witness ==
    /\ Returned("deleteById") /\ last.ret.boolean
    /\ Len(Participants(last.objectiveName)) > 0

(***************************************************************************)
(* C8.  getElements(c, {k: v, ...}) returns exactly the records of c whose *)
(* document has every field of the mapping, strictly equal to the value    *)
(* given for it; a record whose document lacks a field is left out.        *)
(***************************************************************************)
\* the document has the fields of the mapping with strictly equal values
HasFields(parsed, query) ==
    \A i \in 1..Len(query.fields) :
        /\ HasOwn(parsed, query.fields[i].key)
        /\ StrictEquals(GetProp(parsed, query.fields[i].key), query.fields[i].val)

RecordsHaving(participants, query) ==
    LET hits == SelectSeq(participants,
                    LAMBDA p : /\ _parse(p.displayName) # DocNull
                               /\ HasFields(_parse(p.displayName), query))
    IN  [i \in 1..Len(hits) |-> Element(participants, hits[i])]

C8_ExactlyTheRecordsHaving ==
    (Returned("getElements") /\ last.query.kind = "object") =>
        last.ret.list = RecordsHaving(Participants(last.objectiveName), last.query)

\* C8 for the mappings without an undefined value, where the code agrees with it
C8_DefinedValues ==
    (/\ Returned("getElements") /\ last.query.kind = "object"
     /\ \A i \in 1..Len(last.query.fields) : last.query.fields[i].val # Undefined)
    => last.ret.list = RecordsHaving(Participants(last.objectiveName), last.query)

(***************************************************************************)
(* C9.  As stated: exists(c, id) is true if and only if                    *)
(* getElementById(c, id) is not null, also in states with entries whose    *)
(* content does not parse or parses to null.                               *)
(***************************************************************************)
C9_ExistsIffFound ==
    (Returned("exists") /\ last.query.kind = "number") =>
        (last.ret.boolean <=>
            getElementById(scoreboard, last.objectiveName, last.query.id).ret
                # DocNull)

\* C9, amended: exists(c, id) is true if and only if an entry of c carries id,
\* whatever its content; getElementById(c, id) is not null if and only if the
\* first such entry has content that parses to a value other than null.  The two
\* differ exactly for an id whose entry does not parse or parses to null.
C9_ExistsById ==
    (Returned("exists") /\ last.query.kind = "number") =>
        LET found == WithScore(Participants(last.objectiveName), last.query.id)
            got == getElementById(scoreboard, last.objectiveName, last.query.id).ret
        IN  /\ last.ret.boolean <=> found # <<>>
            /\ got # DocNull
                 <=> (found # <<>> /\ _parse(found[1].displayName) # DocNull)

\* exists is true for the id of an entry that is not JSON
C9_Witness ==
    /\ Returned("exists") /\ last.query.kind = "number" /\ last.ret.boolean
    /\ WithScore(Participants(last.objectiveName), last.query.id)[1].displayName
         \in ForeignNames

(***************************************************************************)
(* C10.  As stated: in every reachable state count(c) without a query      *)
(* equals the number of records getElements(c) returns without a query.    *)
(***************************************************************************)
C10_CountIsGetElements ==
    \A c \in ObjectiveNames :
        count(scoreboard, c, QueryUndefined).ret
            = Len(getElements(scoreboard, c, QueryUndefined).ret)

\* C10, amended: count(c) without a query is the number of entries of c: the
\* number of records getElements(c) returns plus the number of entries whose
\* content does not parse or parses to null.
C10_CountIsEntries ==
    /\ \A c \in ObjectiveNames :
        LET unparsed == SelectSeq(Participants(c),
                            LAMBDA p : _parse(p.displayName) = DocNull)
        IN  /\ count(scoreboard, c, QueryUndefined).ret = Len(Participants(c))
            /\ count(scoreboard, c, QueryUndefined).ret
                 = Len(getElements(scoreboard, c, QueryUndefined).ret) + Len(unparsed)
    /\ (Returned("count") /\ last.query.kind = "undefined")
         => last.ret.number = Len(Participants(last.objectiveName))

\* count returned 2 for a collection of which getElements returns one record
C10_Witness ==
    /\ Returned("count") /\ last.query.kind = "undefined" /\ last.ret.number = 2
    /\ Len(getElements(scoreboard, last.objectiveName, QueryUndefined).ret) = 1

(***************************************************************************)
(* C11.  After clear(c), count(c) is 0 and exists(c) without a query is    *)
(* false, whatever the collection held before; clear on a collection that  *)
(* does not exist does nothing.                                            *)
(***************************************************************************)
C11_ClearEmpties ==
    [][ LET c == last'.objectiveName
        IN  (last'.op = "clear" /\ last'.threw = "none")
            => /\ count(scoreboard', c, QueryUndefined).ret = 0
               /\ exists(scoreboard', c, QueryUndefined).ret = FALSE
               /\ getParticipants(scoreboard', c) = <<>>
               /\ ~HasObjective(scoreboard, c) => scoreboard' = scoreboard
      ]_vars

\* clear was called after two saves whose records no deleteById removed
C11_Witness ==
    /\ Returned("clear")
    /\ issued[last.objectiveName].id = 2
    /\ ~issued[last.objectiveName].deletedEarlier
    /\ ~issued[last.objectiveName].deletedHighest
    /\ count(scoreboard, last.objectiveName, QueryUndefined).ret = 0

(***************************************************************************)
(* C12.  As stated: update(c, query, x) rewrites every record matching the *)
(* query under its unchanged id, to the old document with x's fields       *)
(* written over it when x is an object and to x(old document) when x is a  *)
(* function; the other records keep their document; the count returned is  *)
(* the number of records that matched before the call.                     *)
(***************************************************************************)
\* the entry matches the query of update
Matched(p, query) ==
    /\ _parse(p.displayName) # DocNull
    /\ MassMatches(_parse(p.displayName), query)

\* the value field k has in the old document with x's fields written over it
MergedValue(old, x, k) == IF HasOwn(x, k) THEN GetProp(x, k) ELSE GetProp(old, k)

\* got is what the claim says of the record whose document was old
IsRewritten(got, old, newData) ==
    IF newData.kind = "function" THEN got = CallTransform(newData.fn, old)
    ELSE /\ OwnKeys(got) = OwnKeys(old) \cup OwnKeys(newData.data)
         /\ \A k \in OwnKeys(got) : GetProp(got, k) = MergedValue(old, newData.data, k)

C12_UpdateRewritesEveryMatch ==
    [][ LET c == last'.objectiveName
            pre == getParticipants(scoreboard, c)
        IN  (last'.op = "update" /\ last'.threw = "none")
            => /\ last'.ret.number = Len(SelectSeq(pre, LAMBDA p : Matched(p, last'.query)))
               /\ \A i \in 1..Len(pre) :
                    LET got == getElementById(scoreboard', c, pre[i].score).ret
                        old == _parse(pre[i].displayName)
                    IN  IF Matched(pre[i], last'.query)
                        THEN IsRewritten(got, old, last'.newData)
                        ELSE got = old
      ]_vars

\* the value JSON gives back for v
JsonValue(v) == GetProp(JsonImage(Obj(<<Prop("v", v)>>)), "v")

\* got is the document that the JSON text of the rewritten document denotes
IsJsonOfRewritten(got, old, newData) ==
    IF newData.kind = "function" THEN got = JsonImage(CallTransform(newData.fn, old))
    ELSE /\ OwnKeys(got)
              = {k \in OwnKeys(old) \cup OwnKeys(newData.data) :
                    MergedValue(old, newData.data, k) # Undefined}
         /\ \A k \in OwnKeys(got) :
                GetProp(got, k) = JsonValue(MergedValue(old, newData.data, k))

\* no rewritten document has the JSON text of another entry or of another
\* rewritten document
NoCollision(pre, query, newData) ==
    \A i, j \in 1..Len(pre) :
        (i # j /\ Matched(pre[i], query))
        => LET text == JsonStringify(DataToSave(_parse(pre[i].displayName), newData))
           IN  /\ text # pre[j].displayName
               /\ Matched(pre[j], query)
                    => text # JsonStringify(DataToSave(_parse(pre[j].displayName),
                                                       newData))

\* C12, amended: when update(c, query, x) returns, the count returned is the
\* number of records that matched before the call.  Provided no rewritten
\* document has the JSON text of another entry or of another rewritten document,
\* every record that matched has, under its unchanged id, the document that the
\* JSON text of the merged (object x) or transformed (function x) document
\* denotes, and every other entry is as it was.
C12_UpdateRewrites ==
    [][ LET c == last'.objectiveName
            pre == getParticipants(scoreboard, c)
            post == getParticipants(scoreboard', c)
        IN  (last'.op = "update" /\ last'.threw = "none")
            => /\ last'.ret.number = Len(SelectSeq(pre, LAMBDA p : Matched(p, last'.query)))
               /\ NoCollision(pre, last'.query, last'.newData)
                    => /\ Len(post) = Len(pre)
                       /\ \A i \in 1..Len(pre) :
                            IF Matched(pre[i], last'.query)
                            THEN /\ Len(WithScore(post, pre[i].score)) = 1
                                 /\ IsJsonOfRewritten(
                                        getElementById(scoreboard', c, pre[i].score).ret,
                                        _parse(pre[i].displayName), last'.newData)
                            ELSE WithScore(post, pre[i].score) = <<pre[i]>>
      ]_vars

\* update rewrote two records of a collection of three and they stayed apart
C12_Witness ==
    /\ Returned("update") /\ last.ret.number = 2
    /\ last.newData = NewDataObject(DocJ)
    /\ Len(Participants(last.objectiveName)) = 3
    /\ getElementById(scoreboard, last.objectiveName, 2).ret
         = Obj(<<Prop("k", Num("1")), Prop("m", Str("b")), Prop("j", Str("a"))>>)

(***************************************************************************)
(* C13.  save(c, d) with a document that cannot be serialized (undefined)  *)
(* or whose JSON text is longer than 32767 characters raises an error and  *)
(* changes nothing: no entry is written and the same collections exist as  *)
(* before the call, also when c did not exist yet.                         *)
(***************************************************************************)
C13_RejectedSaveChangesNothing ==
    [][ (last'.op = "save" /\ _stringify(last'.data).threw # "none")
        => /\ last'.threw # "none"
           /\ \A c \in ObjectiveNames :
                /\ HasObjective(scoreboard', c) <=> HasObjective(scoreboard, c)
                /\ getParticipants(scoreboard', c) = getParticipants(scoreboard, c)
      ]_vars

(***************************************************************************)
(* C14.  No operation leaves a partially applied mutation: if              *)
(* update(c, query, x) raises while it processes a matching record, the    *)
(* collection holds exactly the records, with the same ids and documents,  *)
(* that it held before the call.                                           *)
(***************************************************************************)
\* the records of the collection, as getElements returns them
RecordsOf(board, objectiveName) ==
    LET all == getElements(board, objectiveName, QueryUndefined).ret
    IN  {all[i] : i \in 1..Len(all)}

C14_FailedUpdateChangesNothing ==
    [][ (last'.op = "update" /\ last'.threw # "none")
        => RecordsOf(scoreboard', last'.objectiveName)
             = RecordsOf(scoreboard, last'.objectiveName)
      ]_vars

(***************************************************************************)
(* C15.  Every operation of the storage engine called with an empty        *)
(* collection name or a name longer than 16 characters fails with an       *)
(* error instead of returning a not-found value, and every operation by id *)
(* called with an id that is not an integer fails the same way.            *)
(***************************************************************************)
StorageOperations ==
    {"save", "getElementById", "getElements", "find", "findAll", "updateById",
     "update", "deleteById", "delete", "exists", "count", "clear"}

C15_RejectedArgumentsFail ==
    /\ (last.op \in StorageOperations
          /\ ObjectiveNameError(last.objectiveName) # "none")
         => last.threw # "none"
    /\ (last.op \in {"getElementById", "updateById", "deleteById"}
          /\ last.query.kind # "number")
         => last.threw # "none"

(***************************************************************************)
(* C16.  As stated: entries whose content does not deserialize are treated *)
(* as absent: for two states of a collection that differ only by such      *)
(* entries every read (getElementById, getElements, find, findAll, exists, *)
(* count) returns the same in both, and no operation raises because of     *)
(* them.                                                                   *)
(***************************************************************************)
\* the content of the entry does not deserialize
Malformed(p) == ~JsonParse(p.displayName).ok

\* the scoreboard without the entries that do not deserialize
WithoutMalformed(board) ==
    [c \in DOMAIN board |->
        [board[c] EXCEPT !.participants = SelectSeq(@, LAMBDA p : ~Malformed(p))]]

ReadOperations ==
    {"getElementById", "getElements", "find", "findAll", "exists", "count"}

\* what the last read returns on the given scoreboard
LastReadOn(board) ==
    CASE last.op = "getElementById" ->
            getElementById(board, last.objectiveName, last.id).ret
      [] last.op = "getElements" -> getElements(board, last.objectiveName, last.query).ret
      [] last.op = "find" -> find(board, last.objectiveName, last.query).ret
      [] last.op = "findAll" -> findAll(board, last.objectiveName, last.query).ret
      [] last.op = "exists" -> exists(board, last.objectiveName, last.query).ret
      [] last.op = "count" -> count(board, last.objectiveName, last.query).ret

C16_MalformedEntriesAreAbsent ==
    last.op \in ReadOperations
    => /\ last.threw = "none"
       /\ last.ret = RetOf(last.op, LastReadOn(WithoutMalformed(scoreboard)))

\* C16, amended: no read raises because of entries that do not deserialize, and
\* getElements, find, findAll, and exists and count with a mapping or a function
\* return what they return without those entries.  getElementById(c, id) does
\* too, unless the first entry that carries id is such an entry: then it returns
\* null.  exists(c), exists(c, id) and count(c) do not parse and take such
\* entries for records: exists(c) is true when c has any entry, exists(c, id)
\* when any entry carries id, and count(c) is the number of all entries.
C16_MalformedEntriesAreSkippedByParsingReads ==
    last.op \in ReadOperations
    => LET participants == Participants(last.objectiveName)
           malformed == SelectSeq(participants, Malformed)
           without == LastReadOn(WithoutMalformed(scoreboard))
       IN  /\ last.threw = "none"
           /\ CASE last.op = "getElementById" ->
                    LET found == WithScore(participants, last.id)
                    IN  IF found # <<>> /\ Malformed(found[1])
                        THEN last.ret.document = DocNull
                        ELSE last.ret.document = without
                [] last.op = "exists" /\ last.query.kind = "undefined" ->
                    last.ret.boolean <=> (without \/ malformed # <<>>)
                [] last.op = "exists" /\ last.query.kind = "number" ->
                    last.ret.boolean <=> (without \/ WithScore(malformed, last.query.id) # <<>>)
                [] last.op = "count" /\ last.query.kind = "undefined" ->
                    last.ret.number = without + Len(malformed)
                [] OTHER -> last.ret = RetOf(last.op, without)

\* getElements returned the two records of a collection that has an entry of
\* another add-on as well
C16_Witness ==
    /\ Returned("getElements") /\ last.query.kind = "undefined"
    /\ Len(last.ret.list) = 2
    /\ Len(Participants(last.objectiveName)) = 3

(***************************************************************************)
(* C17: while an objective is written only through CacheManager.save,      *)
(* updateById and deleteById, after every call the loaded mirror holds     *)
(* exactly the ids that the scoreboard stores for the objective, each with *)
(* the document stored under it.                                           *)
(***************************************************************************)
MirrorRecords(objectiveName) ==
    {_memory[objectiveName].entries[i] : i \in 1..Len(_memory[objectiveName].entries)}

C17_MirrorEqualsStore ==
    \A objectiveName \in ObjectiveNames :
        _memory[objectiveName].loaded
        => /\ {e.id : e \in MirrorRecords(objectiveName)}
                = Scores(Participants(objectiveName))
           /\ MirrorRecords(objectiveName) = RecordsOf(scoreboard, objectiveName)

(***************************************************************************)
(* C18: when the physical write of CacheManager.save raises, or that of    *)
(* CacheManager.updateById or deleteById returns false or raises, the      *)
(* mirror has the same entries after the call as before it: those of the   *)
(* loaded mirror, or those the first load reads from the scoreboard.       *)
(***************************************************************************)
CacheWrites == {"CacheManager.save", "CacheManager.updateById", "CacheManager.deleteById"}

PhysicalFailure(call) ==
    /\ call.op \in CacheWrites
    /\ \/ call.threw # "none"
       \/ call.op # "CacheManager.save" /\ ~call.ret.boolean

C18_FailClosed ==
    [][ PhysicalFailure(last')
        => /\ _memory'[last'.objectiveName].entries
                = IF _memory[last'.objectiveName].loaded
                  THEN _memory[last'.objectiveName].entries
                  ELSE getElements(scoreboard, last'.objectiveName, QueryUndefined).ret
           /\ \A other \in ObjectiveNames \ {last'.objectiveName} :
                  _memory'[other] = _memory[other] ]_vars

C18_Witness ==
    /\ last.op = "CacheManager.updateById"
    /\ last.threw = "none"
    /\ ~last.ret.boolean
    /\ _memory[last.objectiveName].entries # <<>>
    /\ ~MapHas(_memory[last.objectiveName].entries, last.id)

(***************************************************************************)
(* C19: _ensureLoaded reads the objective in full with getElements exactly *)
(* once, in the first CacheManager call that touches the objective; for a  *)
(* loaded objective it reads nothing and leaves the mirrors as they are,   *)
(* whatever the scoreboard holds by then.                                  *)
(***************************************************************************)
CacheOperations == CacheWrites \cup {"CacheManager.getById", "CacheManager.getAll"}

C19_LoadedOnce ==
    [][ \A objectiveName \in ObjectiveNames :
            /\ (last'.op \in CacheOperations /\ last'.objectiveName = objectiveName)
               => /\ reads'[objectiveName] = 1
                  /\ _memory'[objectiveName].loaded
            /\ ~(last'.op \in CacheOperations /\ last'.objectiveName = objectiveName)
               => reads'[objectiveName] = reads[objectiveName]
            /\ _memory[objectiveName].loaded
               => /\ reads[objectiveName] = 1
                  /\ _ensureLoaded(_memory, scoreboard, objectiveName)
                        = [memory |-> _memory, reads |-> 0]
                  /\ (last'.op \in {"CacheManager.getById", "CacheManager.getAll"}
                        => _memory' = _memory) ]_vars

C19_Witness ==
    /\ last.op = "CacheManager.getAll"
    /\ reads[last.objectiveName] = 1
    /\ MirrorRecords(last.objectiveName) # RecordsOf(scoreboard, last.objectiveName)
    /\ MirrorRecords(last.objectiveName) # {}
    /\ RecordsOf(scoreboard, last.objectiveName) # {}

(***************************************************************************)
(* C20: once the mirror of an objective is loaded, CacheManager.getById    *)
(* and getAll answer from the mirror alone: getById returns the document   *)
(* the mirror maps the id to, or null, getAll lists the entries of the     *)
(* mirror, and a direct call of ScoreboardStorage changes no answer of     *)
(* either.                                                                 *)
(***************************************************************************)
C20_AnswersFromMirror ==
    [][ \A objectiveName \in ObjectiveNames :
            _memory[objectiveName].loaded
            => /\ last'.op \in StorageOperations
                  => /\ \A id \in InputIds :
                            CacheManager_getById(_memory', scoreboard', objectiveName, id).ret
                            = CacheManager_getById(_memory, scoreboard, objectiveName, id).ret
                     /\ CacheManager_getAll(_memory', scoreboard', objectiveName).ret
                        = CacheManager_getAll(_memory, scoreboard, objectiveName).ret
               /\ (last'.op = "CacheManager.getById" /\ last'.objectiveName = objectiveName)
                  => last'.ret.document
                        = IF /\ MapHas(_memory[objectiveName].entries, last'.id)
                             /\ Truthy(MapGet(_memory[objectiveName].entries, last'.id))
                          THEN MapGet(_memory[objectiveName].entries, last'.id)
                          ELSE DocNull
               /\ (last'.op = "CacheManager.getAll" /\ last'.objectiveName = objectiveName)
                  => last'.ret.list = _memory[objectiveName].entries ]_vars

C20_Witness ==
    /\ last.op = "CacheManager.getById"
    /\ reads[last.objectiveName] = 1
    /\ last.ret.document # DocNull
    /\ getElementById(scoreboard, last.objectiveName, last.id).ret = DocNull

(***************************************************************************)
(* C21: after deleteById, delete by query or clear has destroyed a record, *)
(* the scoreboard no longer stores its id and, when the mirror of the      *)
(* objective is loaded, neither does the mirror.                           *)
(***************************************************************************)
MirrorIds(memory, objectiveName) ==
    {memory[objectiveName].entries[i].id : i \in 1..Len(memory[objectiveName].entries)}

\* the ids of the records that the step destroys
Destroyed ==
    IF last'.threw # "none" THEN {}
    ELSE IF last'.op \in {"deleteById", "CacheManager.deleteById"}
    THEN IF last'.ret.boolean THEN {last'.id} ELSE {}
    ELSE IF last'.op = "delete"
    THEN LET selected == getElements(scoreboard, last'.objectiveName, last'.query).ret
         IN  {selected[i].id : i \in 1..Len(selected)}
    ELSE IF last'.op = "clear" THEN Scores(Participants(last'.objectiveName))
    ELSE {}

C21_DestroyedEverywhere ==
    [][ \A id \in Destroyed :
            /\ id \notin Scores(getParticipants(scoreboard', last'.objectiveName))
            /\ _memory'[last'.objectiveName].loaded
               => id \notin MirrorIds(_memory', last'.objectiveName) ]_vars

\* C21, amended: the scoreboard no longer stores the id; the loaded mirror drops
\* it when the record is destroyed through CacheManager.deleteById, and a direct
\* call of ScoreboardStorage leaves the mirrors as they were
C21_DestroyedInStore ==
    [][ /\ \A id \in Destroyed :
            /\ id \notin Scores(getParticipants(scoreboard', last'.objectiveName))
            /\ last'.op = "CacheManager.deleteById"
               => /\ _memory'[last'.objectiveName].loaded
                  /\ id \notin MirrorIds(_memory', last'.objectiveName)
        /\ last'.op \in {"deleteById", "delete", "clear"} => _memory' = _memory ]_vars

C21_Witness ==
    /\ last.op = "CacheManager.deleteById"
    /\ last.ret.boolean
    /\ MirrorIds(_memory, last.objectiveName) # {}
    /\ last.id \notin MirrorIds(_memory, last.objectiveName)

(***************************************************************************)
(* What the claims about populate speak of: the bindings registered for    *)
(* the objective of the call last made, the document it was given and the  *)
(* object it returned.                                                     *)
(***************************************************************************)
Registered == BindingsOf(_bindings, last.objectiveName)

\* populate was called with one document and no selection, and ran bindings
PopulatedOne ==
    /\ last.op = "populate"
    /\ last.relation.rawData.kind = "object"
    /\ last.relation.relationsToPopulate = RelationsNull
    /\ Registered # <<>>

SourceDoc == last.relation.rawData.docs[1]

Hydrated == last.relation.ret.docs[1]

\* no binding registered later writes the same alias
LastWithAlias(i) == \A j \in (i + 1)..Len(Registered) : Registered[j].as # Registered[i].as

IsScalar(x) == x.t \in {"string", "number"}

\* the records of the target objective, in enumeration order
TargetRecords(binding) ==
    getElements(scoreboard, binding.targetObjective, QueryUndefined).ret

\* the positions of the target records whose target field strictly equals x
EqualAt(binding, x) ==
    {n \in 1..Len(TargetRecords(binding)) :
        LET targetVal == GetProp(TargetRecords(binding)[n].data, binding.targetField)
        IN  targetVal = x /\ IsScalar(x) /\ x # NaN}

\* the document of the first of them, or null
FirstEqual(binding, x) ==
    IF EqualAt(binding, x) = {} THEN Null
    ELSE TargetRecords(binding)[CHOOSE n \in EqualAt(binding, x) :
                                    \A m \in EqualAt(binding, x) : n <= m].data

(***************************************************************************)
(* C22: for a direct binding and a source document whose local field holds *)
(* a scalar, populate sets the alias to the document of the first record   *)
(* of the target objective whose target field strictly equals the scalar,  *)
(* and to null when there is none.                                         *)
(***************************************************************************)
C22_DirectScalar ==
    PopulatedOne
    => \A i \in 1..Len(Registered) :
          (/\ ~Registered[i].isReverse
           /\ LastWithAlias(i)
           /\ IsScalar(GetProp(SourceDoc, Registered[i].localField)))
          => GetProp(Hydrated, Registered[i].as)
                = FirstEqual(Registered[i], GetProp(SourceDoc, Registered[i].localField))

(***************************************************************************)
(* C23: when the local field of the source document is absent or null,     *)
(* the result has the alias as a field of its own, null for a direct       *)
(* binding and the empty list for a reverse binding.                       *)
(***************************************************************************)
C23_MissingLocal ==
    PopulatedOne
    => \A i \in 1..Len(Registered) :
          (/\ LastWithAlias(i)
           /\ GetProp(SourceDoc, Registered[i].localField).t \in {"undefined", "null"})
          => /\ HasOwn(Hydrated, Registered[i].as)
             /\ GetProp(Hydrated, Registered[i].as)
                   = IF Registered[i].isReverse THEN Arr(<<>>) ELSE Null

(***************************************************************************)
(* C24: populate with a single alias or a list of aliases hydrates only    *)
(* the bindings whose alias is in that set: every other alias registered   *)
(* for the objective is absent from the result, and only the target        *)
(* objectives of the selected bindings are read.                           *)
(***************************************************************************)
\* populate was called with one document and a selection, and found bindings
PopulatedSelection ==
    /\ last.op = "populate"
    /\ last.relation.rawData.kind = "object"
    /\ last.relation.relationsToPopulate.kind # "null"
    /\ Registered # <<>>

Requested ==
    {last.relation.relationsToPopulate.names[n] :
        n \in 1..Len(last.relation.relationsToPopulate.names)}

\* the target objectives read are those of selected bindings
ReadsOnlySelected ==
    \A k \in 1..Len(last.relation.targetsRead) :
        \E i \in 1..Len(Registered) :
            /\ Registered[i].as \in Requested
            /\ Registered[i].targetObjective = last.relation.targetsRead[k]

C24_OnlyRequested ==
    PopulatedSelection
    => /\ \A i \in 1..Len(Registered) :
             Registered[i].as \notin Requested => ~HasOwn(Hydrated, Registered[i].as)
       /\ ReadsOnlySelected

\* C24, amended: with a non-empty alias or a list of aliases, the result holds
\* under every other registered alias what the input document holds, nothing
\* when the input has no such field, every selected alias is a field of the
\* result, and only target objectives of selected bindings are read; with the
\* empty string populate does what it does without a selection
C24_Selective ==
    PopulatedSelection
    => IF last.relation.relationsToPopulate = RelationsString("")
       THEN last.relation.ret
               = populate(_bindings, scoreboard, last.objectiveName,
                          last.relation.rawData, RelationsNull).ret
       ELSE /\ \A i \in 1..Len(Registered) :
                  IF Registered[i].as \in Requested
                  THEN HasOwn(Hydrated, Registered[i].as)
                  ELSE /\ HasOwn(Hydrated, Registered[i].as)
                            <=> HasOwn(SourceDoc, Registered[i].as)
                       /\ GetProp(Hydrated, Registered[i].as)
                            = GetProp(SourceDoc, Registered[i].as)
            /\ ReadsOnlySelected

C24_Witness ==
    /\ PopulatedSelection
    /\ last.relation.relationsToPopulate = RelationsString("guildData")
    /\ \E i \in 1..Len(Registered) : Registered[i].as = "petData"
    /\ GetProp(Hydrated, "guildData") = GuildX
    /\ ~HasOwn(Hydrated, "petData")
    /\ last.relation.targetsRead = <<"players">>

(***************************************************************************)
(* C25: for a direct binding and a source document whose local field holds *)
(* an array, populate sets the alias to the list of the first matching     *)
(* target documents of the elements, in array order, leaving out the       *)
(* elements that match no record: the list holds no null and is not longer *)
(* than the array.                                                         *)
(***************************************************************************)
\* the first matching documents of the elements that have one
FirstEqualOfEach(binding, items) ==
    LET found == [n \in 1..Len(items) |-> FirstEqual(binding, items[n])]
    IN  SelectSeq(found, LAMBDA d : d # Null)

C25_DirectArray ==
    PopulatedOne
    => \A i \in 1..Len(Registered) :
          (/\ ~Registered[i].isReverse
           /\ LastWithAlias(i)
           /\ GetProp(SourceDoc, Registered[i].localField).t = "array")
          => LET localValue == GetProp(SourceDoc, Registered[i].localField)
                 list == GetProp(Hydrated, Registered[i].as)
             IN  /\ list = Arr(FirstEqualOfEach(Registered[i], localValue.items))
                 /\ \A n \in 1..Len(list.items) : list.items[n] # Null
                 /\ Len(list.items) <= Len(localValue.items)

(***************************************************************************)
(* C26: for a reverse binding, populate sets the alias to the list of the  *)
(* documents of all target records, in enumeration order, whose target     *)
(* field equals the local value of the source document or is an array      *)
(* that contains it; the list is empty when there is none.                 *)
(***************************************************************************)
\* the target field of the record refers to the scalar x
RefersTo(record, binding, x) ==
    LET targetVal == GetProp(record.data, binding.targetField)
    IN  IF targetVal.t = "array"
        THEN \E n \in 1..Len(targetVal.items) : targetVal.items[n] = x
        ELSE targetVal = x /\ x # NaN

AllReferring(binding, x) ==
    LET children == SelectSeq(TargetRecords(binding),
                              LAMBDA record : RefersTo(record, binding, x))
    IN  [n \in 1..Len(children) |-> children[n].data]

C26_Reverse ==
    PopulatedOne
    => \A i \in 1..Len(Registered) :
          (/\ Registered[i].isReverse
           /\ LastWithAlias(i)
           /\ IsScalar(GetProp(SourceDoc, Registered[i].localField)))
          => GetProp(Hydrated, Registered[i].as)
                = Arr(AllReferring(Registered[i],
                                   GetProp(SourceDoc, Registered[i].localField)))

(***************************************************************************)
(* C27: for every input that is not null, populate returns a new object,   *)
(* or a new list of new objects, one per element of the input in the same  *)
(* order, that carries the fields of the input beside the aliases, and the *)
(* input is left as it was, whether or not a binding is registered.        *)
(***************************************************************************)
PopulatedSome == last.op = "populate" /\ last.relation.rawData.kind # "null"

\* the fields of the input that no registered binding writes are in the output
CarriesInput(input, output) ==
    \A n \in 1..Len(input.fields) :
        LET key == input.fields[n].key
        IN  (\A i \in 1..Len(Registered) : Registered[i].as # key)
            => GetProp(output, key) = input.fields[n].val

C27_ShallowClone ==
    PopulatedSome
    => /\ ~last.relation.same
       /\ last.relation.rawDataAfter = last.relation.rawData
       /\ last.relation.ret.kind = last.relation.rawData.kind
       /\ Len(last.relation.ret.docs) = Len(last.relation.rawData.docs)
       /\ \A n \in 1..Len(last.relation.rawData.docs) :
             CarriesInput(last.relation.rawData.docs[n], last.relation.ret.docs[n])

(***************************************************************************)
(* C28: bind and bindReverse with an empty string among their parameters   *)
(* throw and leave the registry as it was; a call that succeeds appends    *)
(* one binding at the end of the list of the source objective and leaves   *)
(* the bindings before it, and the lists of other objectives, as they were.*)
(***************************************************************************)
BindCalled == last'.op \in {"bind", "bindReverse"}

HasEmptyParameter ==
    \/ last'.objectiveName = ""
    \/ last'.relation.binding.localField = ""
    \/ last'.relation.binding.targetObjective = ""
    \/ last'.relation.binding.targetField = ""
    \/ last'.relation.binding.as = ""

C28_Bind ==
    [][BindCalled
       => IF HasEmptyParameter
          THEN /\ last'.threw = "TypeError"
               /\ _bindings' = _bindings
          ELSE /\ last'.threw = "none"
               /\ last'.relation.binding.isReverse = (last'.op = "bindReverse")
               /\ _bindings' = [_bindings EXCEPT ![last'.objectiveName] =
                                   Append(@, last'.relation.binding)]]_vars

\* a reverse binding was appended behind a direct one, and a call with an empty
\* alias was refused after that
C28_Witness ==
    /\ last.op = "bind"
    /\ last.threw = "TypeError"
    /\ last.relation.binding.as = ""
    /\ last.relation.binding.localField # ""
    /\ Len(_bindings["members"]) = 2
    /\ ~_bindings["members"][1].isReverse
    /\ _bindings["members"][2].isReverse

(***************************************************************************)
(* C29: when bindings of one source objective share an alias, populate     *)
(* runs all of them in the order of registration, and the value under the  *)
(* alias in the result is the one the binding registered last produced.    *)
(***************************************************************************)
\* the last binding before the i-th that writes key, 0 when there is none
LastBefore(i, key) ==
    LET writers == {j \in 1..(i - 1) : Registered[j].as = key}
    IN  IF writers = {} THEN 0
        ELSE CHOOSE j \in writers : \A k \in writers : k <= j

RECURSIVE ValueBefore(_, _)
RECURSIVE Produced(_)

\* what the result holds under key when the i-th binding runs
ValueBefore(i, key) ==
    IF LastBefore(i, key) = 0 THEN GetProp(SourceDoc, key)
    ELSE Produced(LastBefore(i, key))

\* the value the i-th binding produces when it runs
Produced(i) ==
    LET binding == Registered[i]
        localValue == ValueBefore(i, binding.localField)
    IN  IF localValue.t \in {"undefined", "null"}
        THEN IF binding.isReverse THEN Arr(<<>>) ELSE Null
        ELSE IF binding.isReverse
        THEN IF IsScalar(localValue) THEN Arr(AllReferring(binding, localValue))
             ELSE Arr(<<>>)
        ELSE IF localValue.t = "array"
        THEN Arr(FirstEqualOfEach(binding, localValue.items))
        ELSE FirstEqual(binding, localValue)

\* the bindings that look up their target, in the order of registration
Looking ==
    SelectSeq([i \in 1..Len(Registered) |-> i],
              LAMBDA i : ValueBefore(i, Registered[i].localField).t
                            \notin {"undefined", "null"})

SharesAlias(i) == \E j \in 1..(i - 1) : Registered[j].as = Registered[i].as

C29_LastWins ==
    PopulatedOne
    => /\ last.relation.targetsRead
             = [n \in 1..Len(Looking) |-> Registered[Looking[n]].targetObjective]
       /\ \A i \in 1..Len(Registered) :
             (SharesAlias(i) /\ LastWithAlias(i))
             => GetProp(Hydrated, Registered[i].as) = Produced(i)

\* a direct binding that finds the guild, then a direct binding to pets under the
\* same alias that finds nothing: the alias holds null
C29_Witness ==
    /\ PopulatedOne
    /\ Len(Registered) = 2
    /\ Registered[1].as = "guildData" /\ Registered[2].as = "guildData"
    /\ Registered[1].targetObjective = "players"
    /\ Registered[2].targetObjective = "pets"
    /\ ~Registered[1].isReverse /\ ~Registered[2].isReverse
    /\ FirstEqual(Registered[1], GetProp(SourceDoc, "guildId")) = GuildX
    /\ last.relation.targetsRead = <<"players", "pets">>
    /\ GetProp(Hydrated, "guildData") = Null

(***************************************************************************)
(* C30: after reset() no source objective has a binding, and populate for  *)
(* an objective without bindings returns the fields of its input and       *)
(* nothing else; the setup file, reset() followed by its binds, leaves for *)
(* every source objective exactly its own binds, in their order, whatever  *)
(* was registered before and however often it has run.                     *)
(***************************************************************************)
\* the binds of the setup file for one source objective
RulesOf(rules, sourceObjective) ==
    LET own == SelectSeq(rules, LAMBDA rule : rule.sourceObjective = sourceObjective)
    IN  [n \in 1..Len(own) |-> own[n].binding]

C30_Reset ==
    [][/\ last'.op = "reset"
          => \A n \in SourceObjectives : BindingsOf(_bindings', n) = <<>>
       /\ (/\ last'.op = "populate"
           /\ BindingsOf(_bindings, last'.objectiveName) = <<>>)
          => last'.relation.ret = last'.relation.rawData
       /\ last'.op = "relationSetup"
          => \A n \in SourceObjectives :
                BindingsOf(_bindings', n) = RulesOf(last'.relation.rules, n)]_vars

\* the setup file with three binds has run and populate for guilds, which has one
\* binding, injected its alias
C30_Witness ==
    /\ last.op = "populate"
    /\ last.objectiveName = "guilds"
    /\ Len(_bindings["members"]) = 2
    /\ _bindings["guilds"] = <<MemberRule.binding>>
    /\ last.relation.rawData = RawObject(MemberG1)
    /\ GetProp(last.relation.ret.docs[1], "memberData") = Arr(<<>>)

(***************************************************************************)
(* C31: a save that succeeds returns the highest id among the entries the  *)
(* objective held when it was called, 0 when it held none, plus one: an id *)
(* above every id that was present, and 1 for an empty or a new objective. *)
(***************************************************************************)
\* the ids of the entries of the objective before the call
IdsBefore == {p.score : p \in {scoreboard[last'.objectiveName].participants[i] :
                  i \in 1..Len(scoreboard[last'.objectiveName].participants)}}

Saved == last'.op = "save" /\ last'.threw = "none"

C31_NextId ==
    [][Saved
       => /\ \E top \in IdsBefore \cup {0} :
                /\ \A id \in IdsBefore : id <= top
                /\ last'.ret.number = top + 1
          /\ \A id \in IdsBefore : last'.ret.number > id
          /\ IdsBefore = {} => last'.ret.number = 1
          /\ \E p \in {scoreboard'[last'.objectiveName].participants[i] :
                         i \in 1..Len(scoreboard'[last'.objectiveName].participants)} :
                /\ p.score = last'.ret.number
                /\ p.displayName = _stringify(last'.data).json]_vars

\* a save after the deletion of an id below the highest: the id returned is not the
\* number of entries plus one
C31_Witness ==
    /\ last.op = "save" /\ last.threw = "none"
    /\ last.ret.number = 3
    /\ Len(scoreboard[last.objectiveName].participants) = 2
    /\ issued[last.objectiveName].deletedEarlier

(***************************************************************************)
(* C32: delete(c, query) removes the records that getElements(c, query)    *)
(* returned just before the call and no other entry, returns their number, *)
(* and getElements(c, query) is empty afterwards, for an object query, for *)
(* a function and for no query.                                            *)
(***************************************************************************)
FoundBefore == getElements(scoreboard, last'.objectiveName, last'.query).ret

C32_DeleteWhatGetElementsFinds ==
    [][(last'.op = "delete" /\ last'.threw = "none")
       => /\ last'.ret.number = Len(FoundBefore)
          /\ getParticipants(scoreboard', last'.objectiveName)
                = SelectSeq(getParticipants(scoreboard, last'.objectiveName),
                            LAMBDA p : \A n \in 1..Len(FoundBefore) :
                                           FoundBefore[n].id # p.score)
          /\ getElements(scoreboard', last'.objectiveName, last'.query).ret = <<>>]_vars

(***************************************************************************)
(* C33: findAll(c, p) returns the records getElements(c, p) returns, in    *)
(* the same order, and find(c, p) returns the first of them, or null when  *)
(* there is none, for every function p and every state of the objective.   *)
(***************************************************************************)
\* what getElements returns for the query of the last call; a read leaves the
\* scoreboard as it is
FoundNow == getElements(scoreboard, last.objectiveName, last.query).ret

C33_FindIsGetElements ==
    /\ (last.op = "findAll" /\ last.threw = "none") => last.ret.list = FoundNow
    /\ (last.op = "find" /\ last.threw = "none")
       => last.ret.list = IF FoundNow = <<>> THEN <<>> ELSE <<FoundNow[1]>>

(***************************************************************************)
(* C34: count(c, q) is the number of records getElements(c, q) returns,    *)
(* for every object query and every function q, and exists(c, q) is true   *)
(* exactly when getElements(c, q) returns a record, for every object       *)
(* query q, in every state of the objective.                               *)
(***************************************************************************)
C34_CountAndExistsAreGetElements ==
    /\ (last.op = "count" /\ last.threw = "none"
        /\ last.query.kind \in {"object", "function"})
       => last.ret.number = Len(getElements(scoreboard, last.objectiveName,
                                            last.query).ret)
    /\ (last.op = "exists" /\ last.threw = "none" /\ last.query.kind = "object")
       => last.ret.boolean = (getElements(scoreboard, last.objectiveName,
                                          last.query).ret # <<>>)

(***************************************************************************)
(* C35: when updateById(c, id, d) returns true the objective holds as many *)
(* records as before, and every record with another id is still found     *)
(* under its id with the document it had, for every d.                     *)
(***************************************************************************)
UpdatedById == last'.op = "updateById" /\ last'.threw = "none" /\ last'.ret.boolean

EntriesBefore == getParticipants(scoreboard, last'.objectiveName)

OthersKept ==
    /\ Len(getParticipants(scoreboard', last'.objectiveName)) = Len(EntriesBefore)
    /\ \A i \in 1..Len(EntriesBefore) :
          EntriesBefore[i].score # last'.id
          => getElementById(scoreboard', last'.objectiveName, EntriesBefore[i].score).ret
                = getElementById(scoreboard, last'.objectiveName,
                                 EntriesBefore[i].score).ret

C35_UpdateByIdKeepsOthers == [][UpdatedById => OthersKept]_vars

\* the text of the new document is the text of an entry under another id
TextOfAnother ==
    \E i \in 1..Len(EntriesBefore) :
        /\ EntriesBefore[i].score # last'.id
        /\ EntriesBefore[i].displayName = JsonStringify(last'.data)

\* the same, for every d whose text is not the text of an entry under another id;
\* with such a text the store keeps one entry for the two records, under id
C35_UpdateByIdKeepsOthersApart ==
    [][UpdatedById
       => IF TextOfAnother
          THEN /\ Len(getParticipants(scoreboard', last'.objectiveName))
                     = Len(EntriesBefore) - 1
               /\ getElementById(scoreboard', last'.objectiveName, last'.id).ret
                     = _parse(JsonStringify(last'.data))
          ELSE OthersKept]_vars

\* the second of two records was rewritten with a text of its own
C35_Witness ==
    /\ last.op = "updateById" /\ last.ret.boolean
    /\ last.id = 2
    /\ last.data = DocK1J
    /\ Len(getParticipants(scoreboard, last.objectiveName)) = 2
    /\ getElementById(scoreboard, last.objectiveName, 1).ret = DocK1
    /\ getElementById(scoreboard, last.objectiveName, 2).ret = DocK1J

(***************************************************************************)
(* C36: an update(c, query, x) that returns leaves the ids present in c as *)
(* they were, also when rewritten documents are equal to each other or to  *)
(* the document of another record.                                         *)
(***************************************************************************)
UpdateReturned == last'.op = "update" /\ last'.threw = "none"

IdsOf(participants) == {participants[i].score : i \in 1..Len(participants)}

C36_UpdateKeepsEveryId ==
    [][UpdateReturned
       => IdsOf(getParticipants(scoreboard', last'.objectiveName))
             = IdsOf(EntriesBefore)]_vars

\* the entries that the update rewrites
Rewritten ==
    {i \in 1..Len(EntriesBefore) :
        /\ _parse(EntriesBefore[i].displayName) # DocNull
        /\ MassMatches(_parse(EntriesBefore[i].displayName), last'.query)}

\* the text that the update writes for the i-th entry
NewText(i) ==
    JsonStringify(DataToSave(_parse(EntriesBefore[i].displayName), last'.newData))

\* a rewritten text is the text of another entry, or of another rewritten entry
TextsCoincide ==
    \E i \in Rewritten :
        \E j \in (1..Len(EntriesBefore)) \ {i} :
            \/ NewText(i) = EntriesBefore[j].displayName
            \/ j \in Rewritten /\ NewText(i) = NewText(j)

\* no id is added, and none is lost unless rewritten texts coincide; then the store
\* keeps one entry for them and an id is lost
C36_UpdateKeepsIdsApart ==
    [][UpdateReturned
       => /\ IdsOf(getParticipants(scoreboard', last'.objectiveName))
                \subseteq IdsOf(EntriesBefore)
          /\ ~TextsCoincide
             => IdsOf(getParticipants(scoreboard', last'.objectiveName))
                   = IdsOf(EntriesBefore)]_vars

\* two records were rewritten to different documents and a third was left alone
C36_Witness ==
    /\ last.op = "update" /\ last.threw = "none"
    /\ last.ret.number = 2
    /\ IdsOf(getParticipants(scoreboard, last.objectiveName)) = {1, 2, 3}

(***************************************************************************)
(* C37: only save creates a collection.  Every other operation, called on  *)
(* a collection that does not exist, leaves the scoreboard as it is, and   *)
(* when it accepts its arguments it returns its not-found value: null,     *)
(* false, 0, an empty list, or nothing.                                    *)
(***************************************************************************)
NotSave ==
    {"getElementById", "getElements", "find", "findAll", "updateById", "update",
     "deleteById", "delete", "exists", "count", "clear"}

\* what the operation returns when it finds nothing
NotFound(op) ==
    RetOf(op, CASE op = "getElementById" -> DocNull
                [] op \in {"getElements", "find", "findAll"} -> <<>>
                [] op \in {"updateById", "deleteById", "exists"} -> FALSE
                [] OTHER -> 0)

CalledOnMissing ==
    /\ last'.op \in NotSave
    /\ ~HasObjective(scoreboard, last'.objectiveName)

C37_OnlySaveCreates ==
    [][CalledOnMissing
       => /\ scoreboard' = scoreboard
          /\ last'.threw = "none" => last'.ret = NotFound(last'.op)]_vars

\* deleteById returned false for a collection that does not exist
C37_Witness ==
    /\ last.op = "deleteById" /\ last.threw = "none"
    /\ last.objectiveName = "players"
    /\ ~last.ret.boolean
    /\ ~HasObjective(scoreboard, "players")

(***************************************************************************)
(* C38: populate is read-only.  A call of populate, whatever its input,    *)
(* its selection of aliases and the bindings registered, leaves every      *)
(* entry of every objective and every binding of the registry as it was.   *)
(***************************************************************************)
C38_PopulateReadsOnly ==
    [][last'.op = "populate"
       => scoreboard' = scoreboard /\ _bindings' = _bindings]_vars

\* populate ran two bindings, one to an objective with a record and one to an
\* objective that does not exist
C38_Witness ==
    /\ last.op = "populate"
    /\ last.relation.targetsRead = <<"players", "pets">>
    /\ Len(getParticipants(scoreboard, "players")) = 1
    /\ Len(BindingsOf(_bindings, "members")) = 2

(***************************************************************************)
(* The calls of DataSchema.define on one schema manager: two schema names  *)
(* and a blank one, definitions with different keys and null, at two times *)
(* of the clock.                                                           *)
(***************************************************************************)
Define(schemaName, schemaDefinition, now) ==
    \E out \in {define(schemas, scoreboard, schemaName, schemaDefinition, now)} :
        /\ schemas' = out.schemas
        /\ scoreboard' = out.board
        /\ last' = [op |-> "define", objectiveName |-> scoreboardName, id |-> 0,
                    data |-> schemaMetadata(schemaName, schemaDefinition, now),
                    query |-> QueryUndefined, newData |-> NoNewData,
                    ret |-> RetOf("none", 0), threw |-> out.threw,
                    relation |-> NoRelationCall]
        /\ UNCHANGED <<issued, _memory, reads, _bindings>>

SchemaDefinitions ==
    {SchemaObject(<<"uuid">>), SchemaObject(<<"uuid", "rank">>), SchemaNull}

Clock == {"1", "2"}

NextSchema ==
    \E schemaName \in SchemaNames \cup {" "}, schemaDefinition \in SchemaDefinitions,
       now \in Clock :
        Define(schemaName, schemaDefinition, now)

SpecSchema == Init /\ [][NextSchema]_vars

(***************************************************************************)
(* C39: after any calls of define on one schema manager, and no reset, the *)
(* metadata objective holds exactly one record for each schema name        *)
(* defined and no other record: defining a name again adds no second one.  *)
(***************************************************************************)
MetadataRecords == getElements(scoreboard, scoreboardName, QueryUndefined).ret

MetadataOf(schemaName) ==
    SelectSeq(MetadataRecords,
              LAMBDA record : GetProp(record.data, "name") = Str(schemaName))

Defined == {n \in SchemaNames : schemas[n] # NoSchema}

C39_OneRecordPerSchema ==
    /\ \A n \in SchemaNames : Len(MetadataOf(n)) = IF n \in Defined THEN 1 ELSE 0
    /\ Len(MetadataRecords) = Cardinality(Defined)

\* PlayerSchema was defined with one key and again, later, with two; GuildSchema
\* was defined as well
C39_Witness ==
    /\ last.op = "define" /\ last.threw = "none"
    /\ last.data = schemaMetadata("PlayerSchema", SchemaObject(<<"uuid", "rank">>), "2")
    /\ schemas["PlayerSchema"] = SchemaObject(<<"uuid", "rank">>)
    /\ MetadataOf("PlayerSchema") # <<>>
    /\ MetadataOf("PlayerSchema")[1].data
          = schemaMetadata("PlayerSchema", SchemaObject(<<"uuid">>), "1")
    /\ "GuildSchema" \in Defined

====
